---- MODULE Spec2Model ----
(***************************************************************************)
(* Model of the trust-and-dispatch kernel of platform-api.                 *)
(*                                                                         *)
(* Dispatch fabric: crates/api/src/job_distributor.rs                      *)
(*   JobDistributor::distribute_job_to_validators and forward_job_result   *)
(*   run as concurrent tasks; every step below is one critical section of  *)
(*   the code (one lock acquisition), so the interleavings of the model    *)
(*   are those the tokio runtime can produce.                              *)
(*                                                                         *)
(* Secure envelope: crates/api/src/routes/websocket/auth.rs                *)
(*   verify_secure_message is the stateless check of one inbound message;  *)
(*   the connection handler above it keeps the table of redeemed nonces.   *)
(*                                                                         *)
(* Attestation: crates/api/src/routes/websocket/auth.rs and                *)
(*   crates/attestation/src/lib.rs                                         *)
(*   verify_validator_attestation on the built-in and on the full path,    *)
(*   the session table and the grant tokens of AttestationService.         *)
(*   AttestationService::new refuses the default secret.                   *)
(*                                                                         *)
(* Scheduler: crates/scheduler/src/lib.rs                                  *)
(*   SchedulerService keeps the jobs by id; get_job, list_jobs, claim_job, *)
(*   claim_specific_job, complete_job and fail_job are translated from     *)
(*   their bodies; create_job and the timeout sweep are declared outside   *)
(*   the given sources and follow the specification.                       *)
(*                                                                         *)
(* Expected manifest: crates/api/src/routes/websocket/auth.rs              *)
(*   the allowed_envs list, and the compose hash of the manifest text      *)
(*   after normalize_json_for_hashing (parse, sort_json_keys, write).      *)
(***************************************************************************)
EXTENDS Integers, Sequences, FiniteSets, TLC

\* ------------------------------------------------------------------ bounds
\* Number of calls (distribute or forward_job_result) one task starts one
\* after another in a behaviour of Spec.
MaxCalls == 2
\* Number of calls the concurrent tasks start in a behaviour of RaceSpec.
MaxRaceCalls == 3
\* Capacity of a validator's bounded egress channel.
ChanCap == 1
\* Capacity of the egress channels in FifoSpec, where frames queue up.
FifoCap == 2
\* Length of a VM configuration's required_env list.
MaxRequiredEnv == 3
\* Number of distribute calls in a behaviour of FifoSpec.
MaxFifoCalls == 2
\* Number of distribute calls in a behaviour of DeregSpec.
MaxDeregCalls == 2
\* Number of inbound secure messages handled in a behaviour of NonceSpec.
MaxMessages == 3
\* Last clock reading (seconds) of EnvelopeSpec.
MaxClock == 32
\* Number of attestation calls in a behaviour of AttestSpec.
MaxAttestCalls == 1
\* Number of attestation calls in a behaviour of TokenSpec.
MaxAttestations == 2
\* Number of verify_token calls in a behaviour of TokenSpec.
MaxTokenChecks == 2
\* Calls of AttestationService::new.
MaxConstructions == 2
\* Jobs created in the scheduler, calls made on them, jobs created for listing.
MaxJobs == 1
MaxSchedCalls == 3
MaxListed == 3

\* ------------------------------------------------------------- input sets
Validators == {"v1", "v2"}
Jobs == {"j1", "j2"}
Hashes == {"h1", "h2"}
Procs == {"p1", "p2"}
\* ValidatorChallengeState
ChallengeStates == {"Active", "Disabled", "Paused"}
\* Option<String> of DistributeJobRequest.challenge_cvm_ws_url
NoUrl == "None"
CvmUrl == "ws://cvm"
\* The (hotkey, compose_hash, state) declarations validators make.
StatusUpdates ==
    { << "v1", "h1", "Active" >>, << "v1", "h1", "Paused" >>,
      << "v2", "h1", "Active" >>, << "v2", "h2", "Active" >> }
\* The (hotkey, has a message_sender) registrations.
Registrations == { << "v1", TRUE >>, << "v2", TRUE >>, << "v2", FALSE >> }
\* The requests the challenge side submits.
DistributeRequests ==
    { [job_id |-> "j1", compose_hash |-> "h1", challenge_cvm_ws_url |-> CvmUrl],
      [job_id |-> "j2", compose_hash |-> "h1", challenge_cvm_ws_url |-> NoUrl],
      [job_id |-> "j2", compose_hash |-> "h2", challenge_cvm_ws_url |-> CvmUrl] }

\* SecureMessage.nonce
Nonces == {"n1", "n2"}
\* SecureMessage.public_key and the hotkey a connection claims: the validators'
\* SS58 addresses and a string that is no SS58 address.
NotSs58 == "not-ss58"
PublicKeys == Validators \cup {NotSs58}
\* SecureMessage.signature: the signature of the envelope by the key it names,
\* 64 bytes that do not verify, a hex string of another length, no hex string.
Signatures == {"signed", "forged", "short", "not-hex"}
\* The unix times (seconds) the clock shows and envelopes carry.
Instants == {0, 1, 30, 31, 61}
\* The freshness window of an envelope, in seconds.
FreshnessWindow == 30
\* The inbound messages.
Envelopes ==
    [ timestamp : Instants, nonce : Nonces, public_key : PublicKeys,
      signature : Signatures ]

\* Option::None of a message field or an argument.
None == "None"
\* SHA-256 on the challenge bytes "c1" and "c2": a digest is two symbols long
\* here.
Sha256(challenge_bytes) == IF challenge_bytes = "c1" THEN << 0, 1 >> ELSE << 1, 0 >>
\* The leading 32 bytes of a quote's report_data.
ReportData == { << 0, 0 >>, << 0, 1 >>, << 1, 0 >>, << 1, 1 >> }
\* The length below which a quote holds no report_data, in bytes.
ReportDataEnd == 632
\* AttestationMessage.quote: absent, neither base64 nor hex, or the bytes of
\* a quote (their number and the leading half of the report_data field).
NoQuote == [ kind |-> "None" ]
Undecodable == [ kind |-> "undecodable" ]
Quotes ==
    {NoQuote, Undecodable}
    \cup { [kind |-> "bytes", len |-> ReportDataEnd - 1, report_data |-> Sha256("c1")] }
    \cup [ kind : {"bytes"}, len : {ReportDataEnd}, report_data : ReportData ]
\* The compose hash of the expected manifest and another one.
HashExpected == "H_exp"
HashOther == "H_other"
\* AttestationMessage.event_log: absent, without compose-hash record, or
\* with a record of the given hash.
NoEventLog == [ kind |-> "None" ]
NoComposeHash == [ kind |-> "no-compose-hash" ]
EventLogs ==
    {NoEventLog, NoComposeHash}
    \cup [ kind : {"compose-hash"}, compose_hash : {HashExpected, HashOther} ]
\* AttestationMessage.vm_config: absent, empty, not a VmConfig, a VmConfig.
VmConfigs == {None, "", "unparseable", "vm-config"}
AttestationMessages == [ quote : Quotes, event_log : EventLogs, vm_config : VmConfigs ]
\* DstackVerifierClient::verify: an error, or the oracle's response.
AllTrue ==
    [ kind |-> "Ok", is_valid |-> TRUE, quote_verified |-> TRUE,
      event_log_verified |-> TRUE, os_image_hash_verified |-> TRUE ]
OracleOutcomes ==
    { [kind |-> "Err"], AllTrue,
      [AllTrue EXCEPT !.is_valid = FALSE],
      [AllTrue EXCEPT !.quote_verified = FALSE],
      [AllTrue EXCEPT !.event_log_verified = FALSE],
      [AllTrue EXCEPT !.os_image_hash_verified = FALSE] }
\* TdxVerifier::verify_static: an error, or a VerificationResult.
StaticOutcomes ==
    { [ kind |-> "Err" ],
      [ kind |-> "Ok", is_valid |-> FALSE, app_id |-> None, instance_id |-> None ],
      [ kind |-> "Ok", is_valid |-> TRUE, app_id |-> "a1", instance_id |-> "i1" ],
      [ kind |-> "Ok", is_valid |-> TRUE, app_id |-> None, instance_id |-> None ] }
\* What the environment of one attestation call answers: Storage, the
\* default VM configuration, the oracle and the built-in verifier.
AttestEnvs ==
    [ storage_ok : BOOLEAN, fallback_ok : BOOLEAN, oracle : OracleOutcomes,
      static : StaticOutcomes ]
\* AttestationConfig.session_timeout, in seconds.
DefaultSessionTimeout == 300
SessionTimeouts == {120, DefaultSessionTimeout, 600}
\* Lifetime of a grant token, in seconds.
TokenLifetime == 300
\* AttestationConfig and AppState.dstack_verifier (configured or not).
DefaultConfig == [ session_timeout |-> DefaultSessionTimeout, dstack_verifier |-> FALSE ]
Configs == [ session_timeout : SessionTimeouts, dstack_verifier : BOOLEAN ]
\* AttestationConfig.jwt_secret: the sentinel, near misses of it and others.
JwtSecrets ==
    {"change-me-in-production", "Change-Me-In-Production", "change-me", "", "s3cret"}
\* AttestationConfig, the fields AttestationService::new and the tokens read.
AttestationConfigs == [ jwt_secret : JwtSecrets, session_timeout : SessionTimeouts ]
\* AttestationConfig::default()
AttestationConfigDefault ==
    [ jwt_secret |-> "change-me-in-production", session_timeout |-> DefaultSessionTimeout ]
\* Option<T>: None, or Some(x).
NoValue == [ kind |-> "None" ]
Some(x) == [ kind |-> "Some", value |-> x ]
unwrap_or(opt, default) == IF opt.kind = "Some" THEN opt.value ELSE default
\* SchedulerConfig::default(): job_timeout in seconds and retry_attempts.
DefaultJobTimeout == 3600
DefaultRetryAttempts == 3
\* The page and page size list_jobs reports.
ListPage == 1
ListPerPage == 20
\* JobStatus, and the states a job can still leave.
JobStatuses == {"Pending", "Claimed", "Running", "Completed", "Failed"}
NonTerminal == {"Pending", "Claimed", "Running"}
\* CreateJobRequest: {challenge_id, priority?, runtime, timeout?, max_retries?}.
CreateJobRequests ==
    [ challenge_id : {"ch1"}, priority : {Some("Normal"), Some("High")},
      runtime : {"Docker"}, timeout : {NoValue, Some(1)},
      max_retries : {NoValue, Some(0), Some(2)} ]
\* The ids calls are addressed to: those of the jobs and one of no job.
JobIds == 1..(MaxJobs + 1)
\* The clock readings of the scheduler: after a short timeout, and for the
\* sweep also after the default one.
SchedInstants == {2}
SweepInstants == {2, DefaultJobTimeout + 1}
\* list_jobs arguments.
Pages == {1, 2}
PerPages == {1, 2, 10}
StatusFilters == {NoValue, Some("pending"), Some("completed")}
ChallengeFilters == {NoValue, Some("ch1"), Some("ch2")}
\* VmComposeConfig.required_env: keys in any order, repeated or equal to a
\* fixed key.
EnvKeys == {"API_KEY", "DSTACK_VMM_URL", "HOTKEY_PASSPHRASE", "ZONE"}
RequiredEnvs == UNION { [1..n -> EnvKeys] : n \in 0..MaxRequiredEnv }

VARIABLES
    validator_connections,      \* AppState.validator_connections: hotkey -> connection
    validator_challenge_status, \* AppState.validator_challenge_status: hotkey -> (compose_hash -> state)
    job_cache,                  \* AppState.job_cache: job_id -> JobCache
    call,                       \* per task: the call it runs, its locals and its response
    calls_started,              \* number of calls started so far
    frames,                     \* history: <<hotkey, job_id>> of every job_execute frame accepted
    repeated_frames,            \* history: <<hotkey, job_id>> accepted more than once
    completions,                \* history: transitions of a job's cache status into Completed
    first_result,               \* history: status recorded by the first result of a job
    forwarded,                  \* results handed over for delivery: <<job_id, return address, error>>
    now,                        \* SystemTime::now() in seconds since the epoch
    seen_nonces,                \* the nonce table: <<hotkey, nonce>> -> time of redemption
    verdict,                    \* outcome of the last inbound message
    messages_handled,           \* number of inbound messages handled so far
    accepted_log,               \* history: [hotkey, nonce, at] of every accepted message
    checked,                    \* the verify_secure_message call made at the current clock reading
    config,                     \* AttestationConfig and the choice of the verification path
    sessions,                   \* AttestationService.sessions: session id -> AttestationSession
    attest_call,                \* the last verify_validator_attestation call: inputs and outcome
    issued,                     \* history: the grant tokens issued
    token_check,                \* the last verify_token call: token, time and outcome
    attestations,               \* number of attestation calls so far
    token_checks,               \* number of verify_token calls so far
    new_call,                   \* the last AttestationService::new call: config and outcome
    services,                   \* history: the attestation services constructed
    keys_used,                  \* history: the keys tokens were signed and verified with
    constructions,              \* number of AttestationService::new calls so far
    jobs,                       \* SchedulerService.jobs: job id -> JobMetadata
    sched_call,                 \* the last scheduler call: operation, arguments and outcome
    sched_calls,                \* number of scheduler calls on jobs so far
    job_log,                    \* history: job id -> the fail and complete calls made on it
    canon_call                  \* the last allowed_envs or compose-hash computation: input and outcome

dispatch_vars ==
    << validator_connections, validator_challenge_status, job_cache, call,
       calls_started, frames, repeated_frames, completions, first_result, forwarded >>

envelope_vars == << now, seen_nonces, verdict, messages_handled, accepted_log >>

session_vars ==
    << config, sessions, attest_call, issued, token_check, attestations, token_checks >>

attest_vars == << checked, session_vars >>

construct_vars == << new_call, services, keys_used, constructions >>

scheduler_vars == << jobs, sched_call, sched_calls, job_log >>

canon_vars == << canon_call >>

service_vars == << construct_vars, scheduler_vars, canon_vars >>

vars == << dispatch_vars, envelope_vars, attest_vars, service_vars >>

\* ------------------------------------------------------------- JobCache
\* crate::models::JobCache (declared outside the given sources).
JobCacheNew(job_id, compose_hash, url) ==
    [ job_id |-> job_id,
      compose_hash |-> compose_hash,
      challenge_cvm_ws_url |-> url,
      status |-> "Pending",
      validator_hotkey |-> "None",
      assigned_validators |-> << >> ]

mark_distributing(jc) == [jc EXCEPT !.status = "Distributing"]
mark_running(jc, hotkey) == [jc EXCEPT !.status = "Running", !.validator_hotkey = hotkey]
mark_failed(jc) == [jc EXCEPT !.status = "Failed"]
mark_completed(jc) == [jc EXCEPT !.status = "Completed"]

\* A local that holds no JobCache yet.
NoJobCache == JobCacheNew("None", "None", NoUrl)

\* No verify_secure_message call was made at the current clock reading.
NoCheck == [ result |-> "none" ]
\* No verify_validator_attestation call was made yet.
NoAttestCall == [ result |-> "none" ]
\* No verify_token call was made yet.
NoTokenCheck == [ result |-> "none" ]
\* An AttestationResponse without token (String::new()).
NoToken == [ signed_by |-> "nobody" ]
NoNewCall == [ result |-> "none" ]
NoSchedCall == [ op |-> "none" ]
\* Neither allowed_envs nor the compose hash was computed yet.
NoCanonCall == [ op |-> "none" ]

\* HashMap::new
EmptyMap == [x \in {} |-> TRUE]
\* HashMap::insert
MapInsert(map, k, val) == (k :> val) @@ map
\* HashMap::remove
MapRemove(map, k) == [x \in (DOMAIN map) \ {k} |-> map[x]]

\* ------------------------------------------------------ validator registry
\* A connection: Option<mpsc::Sender> and the state of the channel behind it,
\* whose capacity is fixed when the channel is made.
NewConnection(has_sender) ==
    [ message_sender |-> has_sender, queue |-> << >>, closed |-> FALSE,
      capacity |-> ChanCap ]

\* A connection whose channel holds up to FifoCap frames.
BufferedConnection ==
    [ message_sender |-> TRUE, queue |-> << >>, closed |-> FALSE, capacity |-> FifoCap ]

\* Mutant: every validator with an entry for compose_hash is taken, whatever
\* the state of the entry.
ActiveValidatorsAnyState(compose_hash) ==
    { v \in DOMAIN validator_challenge_status :
        compose_hash \in DOMAIN validator_challenge_status[v] }

\* get_active_validators_for_compose_hash: the hotkeys whose entry for
\* compose_hash is Active.
ActiveValidators(compose_hash) ==
    { v \in DOMAIN validator_challenge_status :
        /\ compose_hash \in DOMAIN validator_challenge_status[v]
        /\ validator_challenge_status[v][compose_hash] = "Active" }

\* AppState::get_validator_count
get_validator_count(compose_hash) == Cardinality(ActiveValidators(compose_hash))

\* The orders in which a HashMap iteration can yield the set S.
Orderings(S) ==
    { s \in [1..Cardinality(S) -> S] : \A i, k \in 1..Cardinality(S) : s[i] = s[k] => i = k }

\* mpsc::Sender::try_send succeeds: a sender exists, the receiver lives and
\* the buffer has room.
TrySendOk(v) ==
    /\ v \in DOMAIN validator_connections
    /\ validator_connections[v].message_sender
    /\ ~validator_connections[v].closed
    /\ Len(validator_connections[v].queue) < validator_connections[v].capacity

\* ------------------------------------------------------------------ tasks
IdleCall ==
    [ op |-> "none", pc |-> "idle",
      job_id |-> "None", compose_hash |-> "None", challenge_cvm_ws_url |-> NoUrl,
      error |-> FALSE,
      validator_count |-> 0, active_validators |-> << >>, idx |-> 0,
      job_cache |-> NoJobCache, assigned_validators |-> << >>,
      accepted |-> << >>,   \* history: the validators whose egress took this call's frame
      distributed |-> FALSE, result |-> "none" ]

\* The response of a finished distribute call.
DistributeResponse(req, distributed, validator_count, assigned) ==
    [ IdleCall EXCEPT !.op = "distribute", !.pc = "done",
        !.job_id = req.job_id,
        !.distributed = distributed, !.validator_count = validator_count,
        !.assigned_validators = assigned, !.result = "Ok" ]

Free(p) == call[p].pc \in {"idle", "done"}

InitWith(cfg) ==
    /\ validator_connections = EmptyMap
    /\ validator_challenge_status = EmptyMap
    /\ job_cache = EmptyMap
    /\ call = [p \in Procs |-> IdleCall]
    /\ calls_started = 0
    /\ frames = {}
    /\ repeated_frames = {}
    /\ completions = [j \in Jobs |-> 0]
    /\ first_result = [j \in Jobs |-> "none"]
    /\ forwarded = {}
    /\ now = 0
    /\ seen_nonces = EmptyMap
    /\ verdict = "none"
    /\ messages_handled = 0
    /\ accepted_log = << >>
    /\ checked = NoCheck
    /\ config = cfg
    /\ sessions = EmptyMap
    /\ attest_call = NoAttestCall
    /\ issued = {}
    /\ token_check = NoTokenCheck
    /\ attestations = 0
    /\ token_checks = 0
    /\ new_call = NoNewCall
    /\ services = {}
    /\ keys_used = {}
    /\ constructions = 0
    /\ jobs = EmptyMap
    /\ sched_call = NoSchedCall
    /\ sched_calls = 0
    /\ job_log = EmptyMap
    /\ canon_call = NoCanonCall

\* The state after construction, the service configured with the defaults.
Init == InitWith(DefaultConfig)

\* ------------------------------------------------ distribute_job_to_validators
\* The call starts and reads the count of active validators; a count of 0
\* returns at once.
distribute_job_to_validators(p, req) ==
    /\ Free(p)
    /\ calls_started' = calls_started + 1
    /\ LET validator_count == get_validator_count(req.compose_hash) IN
         call' = [call EXCEPT ![p] =
            IF validator_count = 0
            THEN DistributeResponse(req, FALSE, 0, << >>)
            ELSE [ IdleCall EXCEPT !.op = "distribute", !.pc = "snapshot",
                     !.job_id = req.job_id, !.compose_hash = req.compose_hash,
                     !.challenge_cvm_ws_url = req.challenge_cvm_ws_url,
                     !.validator_count = validator_count ] ]
    /\ UNCHANGED << envelope_vars, attest_vars, service_vars, validator_connections, validator_challenge_status, job_cache,
                    frames, repeated_frames, completions, first_result, forwarded >>

\* The eligibility snapshot; an empty one returns, a non-empty one creates the
\* local JobCache marked Distributing.
DistributeSnapshot(p) ==
    /\ call[p].op = "distribute" /\ call[p].pc = "snapshot"
    /\ \E active_validators \in Orderings(ActiveValidators(call[p].compose_hash)) :
         call' = [call EXCEPT ![p] =
            IF active_validators = << >>
            THEN DistributeResponse(call[p], FALSE, call[p].validator_count, << >>)
            ELSE [ call[p] EXCEPT !.pc = "insert",
                     !.active_validators = active_validators,
                     !.job_cache = mark_distributing(
                        JobCacheNew(call[p].job_id, call[p].compose_hash,
                                    call[p].challenge_cvm_ws_url)) ] ]
    /\ UNCHANGED << envelope_vars, attest_vars, service_vars, validator_connections, validator_challenge_status, job_cache,
                    calls_started, frames, repeated_frames, completions, first_result, forwarded >>

\* Mutant: the send loop starts without the entry having been inserted.
DistributeInsertSkip(p) ==
    /\ call[p].op = "distribute" /\ call[p].pc = "insert"
    /\ call' = [call EXCEPT ![p].pc = "send", ![p].idx = 1]
    /\ UNCHANGED << envelope_vars, attest_vars, service_vars, validator_connections, validator_challenge_status,
                    job_cache, calls_started, frames, repeated_frames, completions, first_result, forwarded >>

\* cache.insert(job_id, job_cache.clone()), then the read lock on
\* validator_connections is taken for the send loop.
DistributeInsert(p) ==
    /\ call[p].op = "distribute" /\ call[p].pc = "insert"
    /\ job_cache' = MapInsert(job_cache, call[p].job_id, call[p].job_cache)
    /\ call' = [call EXCEPT ![p].pc = "send", ![p].idx = 1]
    /\ UNCHANGED << envelope_vars, attest_vars, service_vars, validator_connections, validator_challenge_status,
                    calls_started, frames, repeated_frames, completions, first_result, forwarded >>

\* Mutant: the hotkey is pushed whenever the connection map has an entry for
\* it, whatever try_send returned.
AssignedAfterSendConnected(assigned, v, ok) ==
    IF v \in DOMAIN validator_connections THEN Append(assigned, v) ELSE assigned

\* Mutant: the hotkey is pushed whether or not the send was accepted.
AssignedAfterSendAlways(assigned, v, ok) == Append(assigned, v)

\* The list of assigned validators after the send to v returned ok.
AssignedAfterSend(assigned, v, ok) == IF ok THEN Append(assigned, v) ELSE assigned

\* Mutant: an accepted frame is put in front of the frames already waiting.
ConnectionsAfterSendFront(v, job_id, ok) ==
    IF ok
    THEN [validator_connections EXCEPT ![v].queue = << job_id >> \o @]
    ELSE validator_connections

\* Mutant: an accepted frame is put on the egress twice.
ConnectionsAfterSendTwice(v, job_id, ok) ==
    IF ok
    THEN [validator_connections EXCEPT ![v].queue = Append(Append(@, job_id), job_id)]
    ELSE validator_connections

\* The connection map after the send of job_id to v returned ok.
ConnectionsAfterSend(v, job_id, ok) ==
    IF ok
    THEN [validator_connections EXCEPT ![v].queue = Append(@, job_id)]
    ELSE validator_connections

\* One iteration of the send loop.
DistributeSend(p) ==
    /\ call[p].op = "distribute" /\ call[p].pc = "send"
    /\ call[p].idx <= Len(call[p].active_validators)
    /\ LET v == call[p].active_validators[call[p].idx]
           ok == TrySendOk(v)
       IN /\ validator_connections' = ConnectionsAfterSend(v, call[p].job_id, ok)
          /\ frames' = IF validator_connections' # validator_connections
                       THEN frames \cup {<< v, call[p].job_id >>}
                       ELSE frames
          /\ repeated_frames' =
                IF validator_connections' # validator_connections
                   /\ << v, call[p].job_id >> \in frames
                THEN repeated_frames \cup {<< v, call[p].job_id >>}
                ELSE repeated_frames
          /\ call' = [call EXCEPT
                ![p].idx = @ + 1,
                ![p].job_cache.assigned_validators = AssignedAfterSend(@, v, ok),
                ![p].assigned_validators = AssignedAfterSend(@, v, ok),
                ![p].accepted = IF validator_connections' # validator_connections
                                THEN Append(@, v) ELSE @]
    /\ UNCHANGED << envelope_vars, attest_vars, service_vars, validator_challenge_status, job_cache, calls_started,
                    completions, first_result, forwarded >>

\* Mutant: the entry is anchored on the last acceptor.
FinalJobCacheLast(jc, assigned_validators) ==
    IF assigned_validators # << >>
    THEN mark_running(jc, assigned_validators[Len(assigned_validators)])
    ELSE mark_failed(jc)

\* The JobCache written after the send loop.
FinalJobCache(jc, assigned_validators) ==
    IF assigned_validators # << >>
    THEN mark_running(jc, assigned_validators[1])
    ELSE mark_failed(jc)

\* The final cache write and the response.
DistributeFinish(p) ==
    /\ call[p].op = "distribute" /\ call[p].pc = "send"
    /\ call[p].idx > Len(call[p].active_validators)
    /\ job_cache' = MapInsert(job_cache, call[p].job_id,
                              FinalJobCache(call[p].job_cache, call[p].assigned_validators))
    /\ call' = [call EXCEPT ![p] =
          DistributeResponse(call[p], call[p].assigned_validators # << >>,
                             call[p].validator_count, call[p].assigned_validators)]
    /\ UNCHANGED << envelope_vars, attest_vars, service_vars, validator_connections, validator_challenge_status,
                    calls_started, frames, repeated_frames, completions, first_result, forwarded >>

\* ------------------------------------------------------ forward_job_result
\* The response of a finished forward_job_result call.
ForwardResponse(c, result) ==
    [ IdleCall EXCEPT !.op = "forward", !.pc = "done", !.job_id = c.job_id,
        !.error = c.error, !.result = result ]

\* Mutant: a result for a job without cache entry is absorbed as a success.
ForwardLookupAbsorb(job_id, error) ==
    IF job_id \in DOMAIN job_cache
    THEN [ IdleCall EXCEPT !.op = "forward", !.pc = "write", !.job_id = job_id,
             !.error = error, !.job_cache = job_cache[job_id] ]
    ELSE ForwardResponse([job_id |-> job_id, error |-> error], "Ok")

\* The task after the lookup of the job: it holds a clone of the entry, or
\* has returned the error "Job not found in cache".
ForwardLookup(job_id, error) ==
    IF job_id \in DOMAIN job_cache
    THEN [ IdleCall EXCEPT !.op = "forward", !.pc = "write", !.job_id = job_id,
             !.error = error, !.job_cache = job_cache[job_id] ]
    ELSE ForwardResponse([job_id |-> job_id, error |-> error], "Err")

\* The call starts and looks the job up.
forward_job_result(p, job_id, error) ==
    /\ Free(p)
    /\ calls_started' = calls_started + 1
    /\ call' = [call EXCEPT ![p] = ForwardLookup(job_id, error)]
    /\ UNCHANGED << envelope_vars, attest_vars, service_vars, validator_connections, validator_challenge_status, job_cache,
                    frames, repeated_frames, completions, first_result, forwarded >>

\* Mutant: the error of the result is ignored.
ForwardMarkCompleted(jc, error) == mark_completed(jc)

\* The entry marked per the result's error.
ForwardMark(jc, error) == IF error THEN mark_failed(jc) ELSE mark_completed(jc)

\* The marked entry is written back and the result goes to the return address.
ForwardWrite(p) ==
    /\ call[p].op = "forward" /\ call[p].pc = "write"
    /\ LET job_id == call[p].job_id
           marked == ForwardMark(call[p].job_cache, call[p].error)
           was_completed == job_id \in DOMAIN job_cache
                            /\ job_cache[job_id].status = "Completed"
       IN /\ job_cache' = MapInsert(job_cache, job_id, marked)
          /\ forwarded' = IF marked.challenge_cvm_ws_url # NoUrl
                          THEN forwarded \cup
                                 {<< job_id, marked.challenge_cvm_ws_url, call[p].error >>}
                          ELSE forwarded
          /\ completions' = IF marked.status = "Completed" /\ ~was_completed
                            THEN [completions EXCEPT ![job_id] = @ + 1]
                            ELSE completions
          /\ first_result' = IF first_result[job_id] = "none"
                             THEN [first_result EXCEPT ![job_id] = marked.status]
                             ELSE first_result
          /\ call' = [call EXCEPT ![p] = ForwardResponse(call[p], "Ok")]
    /\ UNCHANGED << envelope_vars, attest_vars, service_vars, validator_connections, validator_challenge_status,
                    calls_started, frames, repeated_frames >>

\* --------------------------------------------------------- the validators
\* No task holds the read lock on validator_connections.
ConnectionsUnlocked == \A p \in Procs : call[p].pc # "send"

\* A validator's attested connection is recorded (a re-register supersedes).
Register(v, has_sender) ==
    /\ ConnectionsUnlocked
    /\ validator_connections' = MapInsert(validator_connections, v, NewConnection(has_sender))
    /\ UNCHANGED << envelope_vars, attest_vars, service_vars, validator_challenge_status, job_cache, call, calls_started,
                    frames, repeated_frames, completions, first_result, forwarded >>

\* A validator's attested connection is recorded, its egress a channel of
\* capacity FifoCap.
RegisterBuffered(v) ==
    /\ ConnectionsUnlocked
    /\ validator_connections' = MapInsert(validator_connections, v, BufferedConnection)
    /\ UNCHANGED << envelope_vars, attest_vars, service_vars, validator_challenge_status, job_cache, call, calls_started,
                    frames, repeated_frames, completions, first_result, forwarded >>

\* The connection entry is removed.
Deregister(v) ==
    /\ ConnectionsUnlocked
    /\ v \in DOMAIN validator_connections
    /\ validator_connections' = MapRemove(validator_connections, v)
    /\ UNCHANGED << envelope_vars, attest_vars, service_vars, validator_challenge_status, job_cache, call, calls_started,
                    frames, repeated_frames, completions, first_result, forwarded >>

\* The validator's socket task ends: the receiving half of the egress is dropped.
CloseReceiver(v) ==
    /\ v \in DOMAIN validator_connections
    /\ validator_connections[v].message_sender
    /\ ~validator_connections[v].closed
    /\ validator_connections' =
         [validator_connections EXCEPT ![v].closed = TRUE, ![v].queue = << >>]
    /\ UNCHANGED << envelope_vars, attest_vars, service_vars, validator_challenge_status, job_cache, call, calls_started,
                    frames, repeated_frames, completions, first_result, forwarded >>

\* The validator's socket task takes the next frame off the egress.
Receive(v) ==
    /\ v \in DOMAIN validator_connections
    /\ validator_connections[v].queue # << >>
    /\ validator_connections' = [validator_connections EXCEPT ![v].queue = Tail(@)]
    /\ UNCHANGED << envelope_vars, attest_vars, service_vars, validator_challenge_status, job_cache, call, calls_started,
                    frames, repeated_frames, completions, first_result, forwarded >>

\* A challenge_status message declares the validator's state for a compose hash.
SetChallengeStatus(v, compose_hash, state) ==
    /\ validator_challenge_status' =
         MapInsert(validator_challenge_status, v,
            MapInsert(IF v \in DOMAIN validator_challenge_status
                      THEN validator_challenge_status[v] ELSE EmptyMap,
                      compose_hash, state))
    /\ UNCHANGED << envelope_vars, attest_vars, service_vars, validator_connections, job_cache, call, calls_started,
                    frames, repeated_frames, completions, first_result, forwarded >>

\* The validator's entries leave the eligibility index.
RemoveChallengeStatus(v) ==
    /\ v \in DOMAIN validator_challenge_status
    /\ validator_challenge_status' = MapRemove(validator_challenge_status, v)
    /\ UNCHANGED << envelope_vars, attest_vars, service_vars, validator_connections, job_cache, call, calls_started,
                    frames, repeated_frames, completions, first_result, forwarded >>

\* --------------------------------------------------------- secure envelope
\* u64::saturating_sub
saturating_sub(a, b) == IF a >= b THEN a - b ELSE 0

\* sr25519::Public::from_ss58check succeeds.
from_ss58check(public_key) == public_key # NotSs58
\* hex::decode succeeds.
hex_decode(signature) == signature # "not-hex"
\* The number of bytes hex::decode yields.
signature_len(signature) == IF signature = "short" THEN 63 ELSE 64
\* sr25519::Pair::verify over message_type, timestamp, nonce and data.
sr25519_verify(signature) == signature = "signed"

\* Mutant: the identity bind is checked before the freshness.
verify_secure_message_identity_first(msg, expected_hotkey, t) ==
    IF msg.public_key # expected_hotkey
    THEN "Public key mismatch"
    ELSE IF saturating_sub(t, msg.timestamp) > FreshnessWindow
    THEN "Message timestamp too old"
    ELSE IF ~from_ss58check(msg.public_key)
    THEN "Invalid public key"
    ELSE IF ~hex_decode(msg.signature)
    THEN "Invalid signature hex"
    ELSE IF signature_len(msg.signature) # 64
    THEN "Invalid signature length"
    ELSE IF ~sr25519_verify(msg.signature)
    THEN "Signature verification failed"
    ELSE "Ok"

\* verify_secure_message at clock reading t: Ok, or the error of the first
\* check that fails.
verify_secure_message(msg, expected_hotkey, t) ==
    IF saturating_sub(t, msg.timestamp) > FreshnessWindow
    THEN "Message timestamp too old"
    ELSE IF msg.public_key # expected_hotkey
    THEN "Public key mismatch"
    ELSE IF ~from_ss58check(msg.public_key)
    THEN "Invalid public key"
    ELSE IF ~hex_decode(msg.signature)
    THEN "Invalid signature hex"
    ELSE IF signature_len(msg.signature) # 64
    THEN "Invalid signature length"
    ELSE IF ~sr25519_verify(msg.signature)
    THEN "Signature verification failed"
    ELSE "Ok"

\* The call of verify_secure_message made at the current clock reading.
VerifyEnvelope(msg, expected_hotkey) ==
    /\ checked = NoCheck
    /\ checked' = [ msg |-> msg, expected_hotkey |-> expected_hotkey, now |-> now,
                    result |-> verify_secure_message(msg, expected_hotkey, now) ]
    /\ UNCHANGED << dispatch_vars, service_vars, envelope_vars, session_vars >>

\* The clock moves on by one second.
ClockStep ==
    /\ now < MaxClock
    /\ now' = now + 1
    /\ checked' = NoCheck
    /\ UNCHANGED << dispatch_vars, service_vars, session_vars,
                    seen_nonces, verdict, messages_handled, accepted_log >>

\* Mutant: the window excludes its last second.
NonceInWindowStrict(redeemed_at, t) == t - redeemed_at < FreshnessWindow

\* A nonce redeemed at redeemed_at is inside the sliding window at t.
NonceInWindow(redeemed_at, t) == t - redeemed_at <= FreshnessWindow

\* The pair was redeemed and its entry is inside the window.
IsReplay(hotkey, nonce) ==
    /\ << hotkey, nonce >> \in DOMAIN seen_nonces
    /\ NonceInWindow(seen_nonces[<< hotkey, nonce >>], now)

\* The connection of expected_hotkey handles one inbound message: the
\* envelope check, then the redemption of (hotkey, nonce).
HandleSecureMessage(msg, expected_hotkey) ==
    /\ messages_handled' = messages_handled + 1
    /\ LET outcome == verify_secure_message(msg, expected_hotkey, now) IN
         IF outcome # "Ok"
         THEN /\ verdict' = outcome
              /\ UNCHANGED << seen_nonces, accepted_log >>
         ELSE IF IsReplay(msg.public_key, msg.nonce)
         THEN /\ verdict' = "Replay"
              /\ UNCHANGED << seen_nonces, accepted_log >>
         ELSE /\ verdict' = "Ok"
              /\ seen_nonces' =
                   MapInsert(seen_nonces, << msg.public_key, msg.nonce >>, now)
              /\ accepted_log' =
                   Append(accepted_log,
                          [hotkey |-> msg.public_key, nonce |-> msg.nonce, at |-> now])
    /\ UNCHANGED << dispatch_vars, service_vars, attest_vars, now >>

\* The entries that left the window are swept.
SweepNonces ==
    /\ \E k \in DOMAIN seen_nonces : ~NonceInWindow(seen_nonces[k], now)
    /\ seen_nonces' =
         [k \in {x \in DOMAIN seen_nonces : NonceInWindow(seen_nonces[x], now)}
            |-> seen_nonces[k]]
    /\ UNCHANGED << dispatch_vars, service_vars, attest_vars, now, verdict, messages_handled, accepted_log >>

\* The clock moves on.
Tick ==
    /\ \E t \in Instants : t > now /\ now' = t
    /\ UNCHANGED << dispatch_vars, service_vars, attest_vars, seen_nonces, verdict, messages_handled, accepted_log >>

\* ------------------------------------------------------------ attestation
\* hex::encode of the identity bytes.
hex_encode(bytes) ==
    IF bytes = "a1" THEN "6131" ELSE IF bytes = "i1" THEN "6931" ELSE ""

\* extract_compose_hash_from_event_log: the reported hash, or None.
extract_compose_hash_from_event_log(event_log) ==
    IF event_log.kind = "compose-hash" THEN event_log.compose_hash ELSE None

\* SHA-256 of the normalized manifest built from the stored compose config.
expected_compose_hash == HashExpected

\* msg.vm_config is Some and not empty.
has_vm_config(vm_config) == vm_config # None /\ vm_config # ""

\* resolve_vm_config_from_msg: the validator's configuration when it parses,
\* otherwise the outcome of build_fallback_vm_config.
resolve_vm_config_from_msg(vm_config, fallback_ok) ==
    IF vm_config # None /\ vm_config = "vm-config"
    THEN "validator"
    ELSE IF fallback_ok THEN "default" ELSE "Err"

\* The challenge binding of the full path: Ok, or its error.
challenge_binding(quote, challenge) ==
    IF challenge = None
    THEN "Ok"
    ELSE IF quote.len >= ReportDataEnd
    THEN IF quote.report_data # Sha256(challenge)
         THEN "Challenge verification failed"
         ELSE "Ok"
    ELSE "Ok"

\* An outcome of the full path reached before / after the oracle was called.
NotCalled(result) == [ result |-> result, verifier_called |-> FALSE, vm_config_sent |-> None ]
Called(result, vm_config_sent) ==
    [ result |-> result, verifier_called |-> TRUE, vm_config_sent |-> vm_config_sent ]

\* verify_validator_with_dstack_verifier
verify_validator_with_dstack_verifier(msg, challenge, env) ==
    IF msg.event_log.kind = "None"
    THEN NotCalled("Missing event log")
    ELSE IF extract_compose_hash_from_event_log(msg.event_log) = None
    THEN NotCalled("Missing compose-hash in event log")
    ELSE IF ~env.storage_ok
    THEN NotCalled("Failed to retrieve validator_vm compose config from DB")
    ELSE IF extract_compose_hash_from_event_log(msg.event_log) # expected_compose_hash
    THEN NotCalled("Compose hash mismatch")
    ELSE IF msg.quote.kind = "None"
    THEN NotCalled("Missing quote for TDX verification")
    ELSE IF msg.quote.kind = "undecodable"
    THEN NotCalled("Failed to decode quote as base64 or hex")
    ELSE IF ~has_vm_config(msg.vm_config)
    THEN NotCalled("Validator must provide vm_config for TDX verification")
    ELSE LET resolved == resolve_vm_config_from_msg(msg.vm_config, env.fallback_ok) IN
         IF resolved = "Err"
         THEN NotCalled("Failed to parse fallback vm_config JSON")
         ELSE IF env.oracle.kind = "Err"
         THEN Called("Failed to verify TDX quote with dstack-verifier", resolved)
         ELSE IF ~env.oracle.is_valid
         THEN Called("TDX verification failed", resolved)
         ELSE Called(challenge_binding(msg.quote, challenge), resolved)

\* generate_grant_token at clock reading t.
generate_grant_token(session_id, verification, t) ==
    [ signed_by |-> "service",
      sub |-> session_id, jti |-> session_id, aud |-> "platform-executor",
      exp |-> t + TokenLifetime, iat |-> t,
      app_id |-> hex_encode(verification.app_id),
      instance_id |-> hex_encode(verification.instance_id) ]

\* The validator hotkey derived from the verified identity.
derived_hotkey(verification) ==
    << "validator",
       IF verification.app_id # None THEN hex_encode(verification.app_id) ELSE "unknown",
       IF verification.instance_id # None
       THEN hex_encode(verification.instance_id) ELSE "unknown" >>

\* Uuid::new_v4: an id no session has.
new_session_id == Cardinality(DOMAIN sessions) + 1

\* The session verify_attestation_with_event_log stores for a valid result.
NewSession(verification) ==
    [ id |-> new_session_id,
      session_token |-> generate_grant_token(new_session_id, verification, now),
      status |-> "Verified",
      validator_hotkey |-> derived_hotkey(verification),
      created_at |-> now,
      expires_at |-> now + config.session_timeout ]

\* Mutant: a session is stored for an invalid verification result as well.
verify_attestation_with_event_log_storing(verification) ==
    IF ~verification.is_valid
    THEN [ session_token |-> NoToken, status |-> "Failed", expires_at |-> now,
           stored |-> TRUE ]
    ELSE [ session_token |-> NewSession(verification).session_token,
           status |-> "Verified", expires_at |-> NewSession(verification).expires_at,
           stored |-> TRUE ]

\* AttestationService::verify_attestation_with_event_log for the result
\* verify_static gave: the AttestationResponse, and whether a session was
\* inserted into the table.
verify_attestation_with_event_log(verification) ==
    IF ~verification.is_valid
    THEN [ session_token |-> NoToken, status |-> "Failed", expires_at |-> now,
           stored |-> FALSE ]
    ELSE [ session_token |-> NewSession(verification).session_token,
           status |-> "Verified", expires_at |-> NewSession(verification).expires_at,
           stored |-> TRUE ]

\* AttestationService::get_session: a clone of the stored session, or the
\* error.
get_session(id) ==
    IF id \in DOMAIN sessions
    THEN [ kind |-> "Ok", session |-> sessions[id] ]
    ELSE [ kind |-> "Err", error |-> "Session not found" ]

\* The call did not get as far as an AttestationResponse.
NoResponse(result) ==
    [ result |-> result, stored |-> FALSE, status |-> "none", session_token |-> NoToken ]

\* The built-in path of verify_validator_attestation: its result, the status
\* and token of the AttestationResponse and whether
\* verify_attestation_with_event_log stored a session.
verify_local(msg, challenge, env) ==
    IF msg.quote.kind = "None"
    THEN NoResponse("Missing quote")
    ELSE IF msg.quote.kind = "undecodable"
    THEN NoResponse("Failed to decode quote (tried base64 and hex)")
    ELSE IF env.static.kind = "Err"
    THEN NoResponse("Failed to verify attestation")
    ELSE LET response == verify_attestation_with_event_log(env.static) IN
         [ result |-> IF response.status = "Verified"
                      THEN "Ok" ELSE "Attestation verification failed",
           stored |-> response.stored,
           status |-> response.status,
           session_token |-> response.session_token ]

\* One call of verify_validator_attestation.
verify_validator_attestation(msg, challenge, env) ==
    /\ attestations' = attestations + 1
    /\ IF config.dstack_verifier
       THEN LET full == verify_validator_with_dstack_verifier(msg, challenge, env) IN
            /\ attest_call' =
                 [ msg |-> msg, challenge |-> challenge, env |-> env,
                   result |-> full.result,
                   verifier_called |-> full.verifier_called,
                   vm_config_sent |-> full.vm_config_sent,
                   sessions_before |-> sessions, status |-> "none", token |-> NoToken ]
            /\ UNCHANGED << sessions, issued >>
       ELSE LET local == verify_local(msg, challenge, env) IN
            /\ sessions' =
                 IF local.stored
                 THEN MapInsert(sessions, new_session_id, NewSession(env.static))
                 ELSE sessions
            /\ issued' =
                 IF local.stored
                 THEN issued \cup {NewSession(env.static).session_token}
                 ELSE issued
            /\ attest_call' =
                 [ msg |-> msg, challenge |-> challenge, env |-> env,
                   result |-> local.result,
                   verifier_called |-> FALSE, vm_config_sent |-> None,
                   sessions_before |-> sessions,
                   status |-> local.status, token |-> local.session_token ]
    /\ UNCHANGED << dispatch_vars, service_vars, envelope_vars, checked, config, token_check, token_checks >>

\* AttestationService::verify_token at clock reading t: Ok, or its error.
\* (The expiry validation inside decode allows a leeway and refuses no
\* token that the comparison with now accepts.)
verify_token(token, t) ==
    IF token.signed_by # "service" \/ token.aud # "platform-executor"
    THEN "Failed to decode JWT token"
    ELSE IF token.exp < t
    THEN "Token expired"
    ELSE IF token.app_id = None
    THEN "Missing app_id claim"
    ELSE IF token.instance_id = None
    THEN "Missing instance_id claim"
    ELSE "Ok"

\* One call of verify_token.
VerifyToken(token) ==
    /\ token_checks' = token_checks + 1
    /\ token_check' = [ token |-> token, now |-> now, result |-> verify_token(token, now) ]
    /\ UNCHANGED << dispatch_vars, service_vars, envelope_vars, checked, config, sessions, attest_call,
                    issued, attestations >>

\* The clock moves on to t.
TickTo(t) ==
    /\ t > now
    /\ now' = t
    /\ UNCHANGED << dispatch_vars, service_vars, attest_vars,
                    seen_nonces, verdict, messages_handled, accepted_log >>

\* --------------------------------------------------- service construction
\* The secret AttestationService::new refuses.
DEFAULT_SECRET == "change-me-in-production"

\* AttestationService::new without the check of the secret.
AttestationService_new_unchecked(cfg) ==
    [ kind |-> "Ok", config |-> cfg,
      signing_key |-> cfg.jwt_secret, decoding_key |-> cfg.jwt_secret,
      sessions |-> EmptyMap ]

\* AttestationService::new: an error, or the service with its two keys made
\* of the configured secret and no session.
AttestationService_new(cfg) ==
    IF cfg.jwt_secret = DEFAULT_SECRET
    THEN [ kind |-> "Err" ]
    ELSE [ kind |-> "Ok", config |-> cfg,
           signing_key |-> cfg.jwt_secret, decoding_key |-> cfg.jwt_secret,
           sessions |-> EmptyMap ]

\* One call of AttestationService::new.
NewService(cfg) ==
    /\ constructions' = constructions + 1
    /\ LET made == AttestationService_new(cfg) IN
         /\ new_call' = [ config |-> cfg, result |-> made.kind, services_before |-> services ]
         /\ services' = IF made.kind = "Ok" THEN services \cup {made} ELSE services
    /\ UNCHANGED << dispatch_vars, envelope_vars, attest_vars, canon_vars, scheduler_vars, keys_used >>

\* A constructed service signs a grant token with its signing key.
SignGrant(service) ==
    /\ service \in services
    /\ [ op |-> "sign", key |-> service.signing_key ] \notin keys_used
    /\ keys_used' = keys_used \cup { [ op |-> "sign", key |-> service.signing_key ] }
    /\ UNCHANGED << dispatch_vars, envelope_vars, attest_vars, canon_vars, scheduler_vars,
                    new_call, services, constructions >>

\* A constructed service decodes a token with its decoding key.
DecodeToken(service) ==
    /\ service \in services
    /\ [ op |-> "verify", key |-> service.decoding_key ] \notin keys_used
    /\ keys_used' = keys_used \cup { [ op |-> "verify", key |-> service.decoding_key ] }
    /\ UNCHANGED << dispatch_vars, envelope_vars, attest_vars, canon_vars, scheduler_vars,
                    new_call, services, constructions >>

\* -------------------------------------------------------------- scheduler
\* SchedulerService::create_job (declared outside the given sources): the
\* job is inserted in Pending under a fresh id, its deadline now + timeout.
create_job(js, request, t) ==
    LET id == Cardinality(DOMAIN js) + 1
        job == [ id |-> id,
                 challenge_id |-> request.challenge_id,
                 status |-> "Pending",
                 priority |-> unwrap_or(request.priority, "Normal"),
                 runtime |-> request.runtime,
                 retry_count |-> 0,
                 max_retries |-> unwrap_or(request.max_retries, DefaultRetryAttempts),
                 validator_hotkey |-> NoValue,
                 created_at |-> t,
                 timeout_at |-> Some(t + unwrap_or(request.timeout, DefaultJobTimeout)),
                 completed_at |-> NoValue ]
    IN [ kind |-> "Ok", job |-> job, jobs |-> MapInsert(js, id, job) ]

\* A get_job that finds no job.
get_job_not_found(js, id) ==
    [ kind |-> "Err", error |-> "Job not found" ]

\* SchedulerService::get_job
get_job(js, id) ==
    IF id \in DOMAIN js
    THEN [ kind |-> "Ok", job |-> js[id] ]
    ELSE [ kind |-> "Err", error |-> "Job not found" ]

\* SchedulerService::list_jobs: the response.
list_jobs(js, page, per_page, status, challenge_id) ==
    [ jobs |-> { js[id] : id \in DOMAIN js },
      total |-> Cardinality(DOMAIN js),
      page |-> ListPage,
      per_page |-> ListPerPage ]

\* SchedulerService::claim_job: the result and the jobs afterwards.
claim_job(js, request) ==
    [ kind |-> "Err", error |-> "No jobs available", jobs |-> js ]

\* SchedulerService::claim_specific_job
claim_specific_job(js, job_id, request) ==
    [ kind |-> "Err", error |-> "Job not available", jobs |-> js ]

\* SchedulerService::complete_job
complete_job(js, job_id, result) ==
    [ kind |-> "Ok", jobs |-> js ]

\* A fail_job that counts the failure of a job it knows.
fail_job_counting(js, job_id, request) ==
    [ kind |-> "Ok",
      jobs |-> IF job_id \in DOMAIN js
               THEN [js EXCEPT ![job_id].retry_count = @ + 1] ELSE js ]

\* SchedulerService::fail_job
fail_job(js, job_id, request) ==
    [ kind |-> "Ok", jobs |-> js ]

\* The jobs past their deadline at t in a state they can still leave.
Overdue(js, t) ==
    { id \in DOMAIN js :
        /\ js[id].status \in NonTerminal
        /\ js[id].timeout_at.kind = "Some"
        /\ js[id].timeout_at.value < t }

\* fail_job applied to each job of ids in turn.
RECURSIVE fail_each(_, _)
fail_each(js, ids) ==
    IF ids = {} THEN js
    ELSE LET id == CHOOSE x \in ids : TRUE IN
         fail_each(fail_job(js, id, [ reason |-> "timeout" ]).jobs, ids \ {id})

\* One call of create_job.
CreateJob(request) ==
    LET made == create_job(jobs, request, now) IN
    /\ jobs' = made.jobs
    /\ job_log' = MapInsert(job_log, made.job.id, << >>)
    /\ sched_call' =
         [ op |-> "create_job", request |-> request, at |-> now,
           result |-> made.kind, job |-> made.job, jobs_before |-> jobs ]
    /\ UNCHANGED << dispatch_vars, envelope_vars, attest_vars, canon_vars, construct_vars, sched_calls >>

\* One call of get_job.
GetJob(job_id) ==
    /\ sched_call' =
         [ op |-> "get_job", job_id |-> job_id,
           result |-> get_job(jobs, job_id).kind, response |-> get_job(jobs, job_id),
           jobs_before |-> jobs ]
    /\ UNCHANGED << dispatch_vars, envelope_vars, attest_vars, canon_vars, construct_vars,
                    jobs, sched_calls, job_log >>

\* One call of list_jobs.
ListJobs(page, per_page, status, challenge_id) ==
    /\ sched_call' =
         [ op |-> "list_jobs", page |-> page, per_page |-> per_page,
           status |-> status, challenge_id |-> challenge_id, result |-> "Ok",
           response |-> list_jobs(jobs, page, per_page, status, challenge_id),
           jobs_before |-> jobs ]
    /\ UNCHANGED << dispatch_vars, envelope_vars, attest_vars, canon_vars, construct_vars,
                    jobs, sched_calls, job_log >>

\* One call of claim_job by a validator.
ClaimJob(validator_hotkey) ==
    LET out == claim_job(jobs, [ validator_hotkey |-> validator_hotkey ]) IN
    /\ sched_calls' = sched_calls + 1
    /\ jobs' = out.jobs
    /\ sched_call' =
         [ op |-> "claim_job", validator_hotkey |-> validator_hotkey,
           result |-> out.kind, jobs_before |-> jobs ]
    /\ UNCHANGED << dispatch_vars, envelope_vars, attest_vars, canon_vars, construct_vars, job_log >>

\* One call of claim_specific_job by a validator.
ClaimSpecificJob(job_id, validator_hotkey) ==
    LET out == claim_specific_job(jobs, job_id, [ validator_hotkey |-> validator_hotkey ]) IN
    /\ sched_calls' = sched_calls + 1
    /\ jobs' = out.jobs
    /\ sched_call' =
         [ op |-> "claim_specific_job", job_id |-> job_id,
           validator_hotkey |-> validator_hotkey,
           result |-> out.kind, jobs_before |-> jobs ]
    /\ UNCHANGED << dispatch_vars, envelope_vars, attest_vars, canon_vars, construct_vars, job_log >>

\* The log of the calls made on the jobs, one more made on job_id.
Logged(job_id, op) ==
    IF job_id \in DOMAIN job_log
    THEN [job_log EXCEPT ![job_id] = Append(@, op)]
    ELSE job_log

\* One call of complete_job.
CompleteJob(job_id) ==
    LET out == complete_job(jobs, job_id, [ error |-> None ]) IN
    /\ sched_calls' = sched_calls + 1
    /\ jobs' = out.jobs
    /\ job_log' = Logged(job_id, "complete")
    /\ sched_call' =
         [ op |-> "complete_job", job_id |-> job_id,
           result |-> out.kind, jobs_before |-> jobs ]
    /\ UNCHANGED << dispatch_vars, envelope_vars, attest_vars, canon_vars, construct_vars >>

\* One call of fail_job.
FailJob(job_id) ==
    LET out == fail_job(jobs, job_id, [ reason |-> "Test failure" ]) IN
    /\ sched_calls' = sched_calls + 1
    /\ jobs' = out.jobs
    /\ job_log' = Logged(job_id, "fail")
    /\ sched_call' =
         [ op |-> "fail_job", job_id |-> job_id,
           result |-> out.kind, jobs_before |-> jobs ]
    /\ UNCHANGED << dispatch_vars, envelope_vars, attest_vars, canon_vars, construct_vars >>

\* The periodic timeout sweep: fail("timeout") for every overdue job.
TimeoutSweep ==
    /\ Overdue(jobs, now) # {}
    /\ jobs' = fail_each(jobs, Overdue(jobs, now))
    /\ sched_call' =
         [ op |-> "timeout_sweep", at |-> now, swept |-> Overdue(jobs, now),
           result |-> "Ok", jobs_before |-> jobs ]
    /\ UNCHANGED << dispatch_vars, envelope_vars, attest_vars, canon_vars, construct_vars,
                    sched_calls, job_log >>

\* ---------------------------------------------------------- specifications
\* One task issues the calls one after another while validators register,
\* declare their status, read their egress and leave at any moment.
SoloProcs == {"p1"}

Next ==
    \/ \E p \in SoloProcs, req \in DistributeRequests :
          calls_started < MaxCalls /\ distribute_job_to_validators(p, req)
    \/ \E p \in SoloProcs : DistributeSnapshot(p)
    \/ \E p \in SoloProcs : DistributeInsert(p)
    \/ \E p \in SoloProcs : DistributeSend(p)
    \/ \E p \in SoloProcs : DistributeFinish(p)
    \/ \E p \in SoloProcs, job_id \in Jobs, error \in BOOLEAN :
          calls_started < MaxCalls /\ forward_job_result(p, job_id, error)
    \/ \E p \in SoloProcs : ForwardWrite(p)
    \/ \E r \in Registrations : Register(r[1], r[2])
    \/ \E v \in Validators : Deregister(v)
    \/ \E v \in Validators : CloseReceiver(v)
    \/ \E v \in Validators : Receive(v)
    \/ \E u \in StatusUpdates : SetChallengeStatus(u[1], u[2], u[3])
    \/ \E v \in Validators : RemoveChallengeStatus(v)

Spec == Init /\ [][Next]_vars

\* Two tasks run their calls concurrently; one validator serves compose hash h1.
RaceRequests == { r \in DistributeRequests : r.compose_hash = "h1" }

RaceNext ==
    \/ \E p \in Procs, req \in RaceRequests :
          calls_started < MaxRaceCalls /\ distribute_job_to_validators(p, req)
    \/ \E p \in Procs : DistributeSnapshot(p)
    \/ \E p \in Procs : DistributeInsert(p)
    \/ \E p \in Procs : DistributeSend(p)
    \/ \E p \in Procs : DistributeFinish(p)
    \/ \E p \in Procs, job_id \in Jobs, error \in BOOLEAN :
          calls_started < MaxRaceCalls /\ forward_job_result(p, job_id, error)
    \/ \E p \in Procs : ForwardWrite(p)
    \/ Register("v1", TRUE)
    \/ Receive("v1")
    \/ SetChallengeStatus("v1", "h1", "Active")

RaceSpec == Init /\ [][RaceNext]_vars

\* Distribute calls, made one after another, whose targets leave after the
\* snapshot: connections are made before the first call starts, a validator
\* declares its challenge status over its connection, and a connection is
\* removed only between a call's snapshot and its send loop (the loop holds
\* the read lock), a receiver dropped only between the snapshot and the end
\* of the loop.
DeregNext ==
    \/ \E p \in SoloProcs, req \in RaceRequests :
          calls_started < MaxDeregCalls /\ distribute_job_to_validators(p, req)
    \/ \E p \in SoloProcs : DistributeSnapshot(p)
    \/ \E p \in SoloProcs : DistributeInsert(p)
    \/ \E p \in SoloProcs : DistributeSend(p)
    \/ \E p \in SoloProcs : DistributeFinish(p)
    \/ \E r \in Registrations : calls_started = 0 /\ Register(r[1], r[2])
    \/ \E u \in StatusUpdates :
          u[1] \in DOMAIN validator_connections /\ SetChallengeStatus(u[1], u[2], u[3])
    \/ \E v \in Validators, p \in SoloProcs :
          call[p].pc = "insert" /\ Deregister(v)
    \/ \E v \in Validators, p \in SoloProcs :
          call[p].pc \in {"insert", "send"} /\ CloseReceiver(v)
    \/ \E v \in Validators : Receive(v)

DeregSpec == Init /\ [][DeregNext]_vars

\* Concurrent distribute calls send to validators whose egress holds more
\* than one frame, while the validators take frames off it.
FifoNext ==
    \/ \E p \in Procs, req \in RaceRequests :
          calls_started < MaxFifoCalls /\ distribute_job_to_validators(p, req)
    \/ \E p \in Procs : DistributeSnapshot(p)
    \/ \E p \in Procs : DistributeInsert(p)
    \/ \E p \in Procs : DistributeSend(p)
    \/ \E p \in Procs : DistributeFinish(p)
    \/ RegisterBuffered("v1")
    \/ CloseReceiver("v1")
    \/ Receive("v1")
    \/ SetChallengeStatus("v1", "h1", "Active")

FifoSpec == Init /\ [][FifoNext]_vars

\* Validators' connections receive secure messages while time passes.
NonceNext ==
    \/ \E msg \in Envelopes, expected_hotkey \in PublicKeys :
          messages_handled < MaxMessages /\ HandleSecureMessage(msg, expected_hotkey)
    \/ SweepNonces
    \/ Tick

NonceSpec == Init /\ [][NonceNext]_vars

\* verify_secure_message is applied to envelopes of every age.
ClockEnvelopes ==
    [ timestamp : 0..MaxClock, nonce : {"n1"}, public_key : PublicKeys,
      signature : Signatures ]

EnvelopeNext ==
    \/ \E msg \in ClockEnvelopes, expected_hotkey \in PublicKeys :
          VerifyEnvelope(msg, expected_hotkey)
    \/ ClockStep

EnvelopeSpec == Init /\ [][EnvelopeNext]_vars

\* Validators present attestations to a service of any configuration.
AttestInit == \E cfg \in Configs : InitWith(cfg)

\* The answers that matter on the full path: those of Storage, of the default
\* VM configuration and of the oracle, at most one of them a failure.
FullEnvs ==
    { env \in AttestEnvs :
        /\ env.static.kind = "Err"
        /\ \/ env.storage_ok /\ env.fallback_ok
           \/ env.oracle = AllTrue /\ (env.storage_ok \/ env.fallback_ok) }
\* The answers that matter on the built-in path: those of verify_static.
LocalEnvs ==
    { env \in AttestEnvs : env.storage_ok /\ env.fallback_ok /\ env.oracle = AllTrue }

AttestNext ==
    \E msg \in AttestationMessages, challenge \in {None, "c1"},
       env \in (IF config.dstack_verifier THEN FullEnvs ELSE LocalEnvs) :
        attestations < MaxAttestCalls /\ verify_validator_attestation(msg, challenge, env)

AttestSpec == AttestInit /\ [][AttestNext]_vars

\* Tokens are issued by the built-in path and verified while time passes.
TokenInit == \E cfg \in Configs : ~cfg.dstack_verifier /\ InitWith(cfg)

TokenInstants == {1, TokenLifetime - 1, TokenLifetime, TokenLifetime + 1, TokenLifetime + 2}

TokenMessages ==
    { msg \in AttestationMessages :
        msg.quote.kind = "bytes" /\ msg.quote.report_data = Sha256("c1")
        /\ msg.event_log.kind = "None" /\ msg.vm_config = None }

TokenEnvs == { env \in LocalEnvs : env.static.kind = "Ok" }

\* The tokens presented: the issued ones and copies signed with another key.
PresentedTokens == issued \cup { [tok EXCEPT !.signed_by = "other"] : tok \in issued }

TokenNext ==
    \/ \E msg \in TokenMessages, env \in TokenEnvs :
          attestations < MaxAttestations /\ verify_validator_attestation(msg, None, env)
    \/ \E token \in PresentedTokens :
          token_checks < MaxTokenChecks /\ VerifyToken(token)
    \/ \E t \in TokenInstants : TickTo(t)

TokenSpec == TokenInit /\ [][TokenNext]_vars

\* Services are constructed from configurations of every secret and the
\* constructed ones sign and verify tokens.
ConstructNext ==
    \/ \E cfg \in AttestationConfigs :
          constructions < MaxConstructions /\ NewService(cfg)
    \/ \E service \in services : SignGrant(service)
    \/ \E service \in services : DecodeToken(service)

ConstructSpec == Init /\ [][ConstructNext]_vars

\* Jobs are created, looked up, claimed, completed and failed while time
\* passes and the timeout sweep runs.
SchedulerNext ==
    \/ \E request \in CreateJobRequests :
          Cardinality(DOMAIN jobs) < MaxJobs /\ CreateJob(request)
    \/ \E job_id \in JobIds : GetJob(job_id)
    \/ \E validator_hotkey \in Validators :
          sched_calls < MaxSchedCalls /\ ClaimJob(validator_hotkey)
    \/ \E job_id \in JobIds, validator_hotkey \in Validators :
          sched_calls < MaxSchedCalls /\ ClaimSpecificJob(job_id, validator_hotkey)
    \/ \E job_id \in JobIds : sched_calls < MaxSchedCalls /\ CompleteJob(job_id)
    \/ \E job_id \in JobIds : sched_calls < MaxSchedCalls /\ FailJob(job_id)
    \/ \E t \in SchedInstants : TickTo(t)
    \/ TimeoutSweep

SchedulerSpec == Init /\ [][SchedulerNext]_vars

\* Jobs with a short deadline are created and claimed; the clock runs and
\* the sweep, once it has work, is not postponed forever.
LiveRequests ==
    { request \in CreateJobRequests : request.timeout = Some(1) }

SweepNext ==
    \/ \E request \in LiveRequests :
          Cardinality(DOMAIN jobs) < MaxJobs /\ CreateJob(request)
    \/ \E validator_hotkey \in Validators :
          sched_calls < MaxSchedCalls /\ ClaimJob(validator_hotkey)
    \/ \E job_id \in JobIds : GetJob(job_id)
    \/ \E t \in SweepInstants : TickTo(t)
    \/ TimeoutSweep

SweepSpec ==
    Init /\ [][SweepNext]_vars /\ WF_vars(TimeoutSweep)
         /\ WF_vars(\E t \in SweepInstants : TickTo(t))

\* Jobs are created and listed.
ListRequests ==
    { request \in CreateJobRequests :
        request.timeout = NoValue /\ request.max_retries = NoValue }

ListNext ==
    \/ \E request \in ListRequests :
          Cardinality(DOMAIN jobs) < MaxListed /\ CreateJob(request)
    \/ \E page \in Pages, per_page \in PerPages, status \in StatusFilters,
          challenge_id \in ChallengeFilters :
          ListJobs(page, per_page, status, challenge_id)

ListSpec == Init /\ [][ListNext]_vars

\* ------------------------------------------------------------- the steps
\* One iteration of p's send loop has run.
SendStep(p) ==
    call[p].op = "distribute" /\ call[p].pc = "send" /\ call'[p].pc = "send"
    /\ call'[p] # call[p]
\* p's distribute call has made its final cache write and returned.
FinishStep(p) ==
    call[p].op = "distribute" /\ call[p].pc = "send" /\ call'[p].pc = "done"
\* p has started a forward_job_result call.
ForwardStart(p) ==
    Free(p) /\ calls_started' = calls_started + 1 /\ call'[p].op = "forward"
    /\ \A q \in Procs \ {p} : call'[q] = call[q]
\* p's forward_job_result call has written the entry back and returned.
WriteStep(p) ==
    call[p].op = "forward" /\ call[p].pc = "write" /\ call'[p].pc = "done"

\* The validator's egress exists, its receiver lives and it is not full.
EgressHealthy(v) ==
    /\ v \in DOMAIN validator_connections
    /\ validator_connections[v].message_sender
    /\ ~validator_connections[v].closed
    /\ Len(validator_connections[v].queue) < validator_connections[v].capacity

\* The validator the send loop of p handles next.
Target(p) == call[p].active_validators[call[p].idx]

\* ------------------------------------------ the expected manifest and hash
\* The strings of the model in the order of String's Ord (byte by byte).
ByteOrder ==
    << "API_KEY", "DSTACK_VMM_URL", "HOTKEY_PASSPHRASE", "VALIDATOR_BASE_URL", "ZONE",
       "allowed_envs", "name", "runner" >>
\* The place of s in that order.
Rank(s) == CHOOSE i \in DOMAIN ByteOrder : ByteOrder[i] = s

\* The keys every manifest allows.
FixedEnvKeys == << "DSTACK_VMM_URL", "HOTKEY_PASSPHRASE", "VALIDATOR_BASE_URL" >>

\* for key in required_env: pushed unless env_keys already holds it.
RECURSIVE PushMissing(_, _)
PushMissing(env_keys, required_env) ==
    IF required_env = << >>
    THEN env_keys
    ELSE PushMissing(
            IF \E i \in DOMAIN env_keys : env_keys[i] = Head(required_env)
            THEN env_keys
            ELSE Append(env_keys, Head(required_env)),
            Tail(required_env))

\* s put into the ascending sequence sorted, behind the elements not above it.
InsertSorted(sorted, s) ==
    LET k == Cardinality({ i \in DOMAIN sorted : Rank(sorted[i]) <= Rank(s) })
    IN SubSeq(sorted, 1, k) \o << s >> \o SubSeq(sorted, k + 1, Len(sorted))

\* Vec::sort
RECURSIVE sort(_)
sort(seq) ==
    IF seq = << >>
    THEN << >>
    ELSE InsertSorted(sort(SubSeq(seq, 1, Len(seq) - 1)), seq[Len(seq)])

\* Vec::dedup: of consecutive equal elements the first stays.
RECURSIVE dedup(_)
dedup(seq) ==
    IF Len(seq) <= 1
    THEN seq
    ELSE IF seq[1] = seq[2]
    THEN dedup(Tail(seq))
    ELSE << seq[1] >> \o dedup(Tail(seq))

\* Mutant: the keys stay in the order in which they were pushed.
allowed_envs_unsorted(required_env) == dedup(PushMissing(FixedEnvKeys, required_env))

\* env_keys of the expected manifest for the VM's required_env.
allowed_envs(required_env) == dedup(sort(PushMissing(FixedEnvKeys, required_env)))

\* The allowed_envs list is computed for a VM configuration.
AllowedEnvs(required_env) ==
    /\ canon_call' = [ op |-> "allowed_envs", required_env |-> required_env,
                       env_keys |-> allowed_envs(required_env) ]
    /\ UNCHANGED << dispatch_vars, envelope_vars, attest_vars, construct_vars, scheduler_vars >>

\* serde_json::Value: strings, booleans, arrays and objects. An object holds
\* its entries in the order its Map iterates them.
JString(text) == [ kind |-> "String", text |-> text ]
JBool(value) == [ kind |-> "Bool", value |-> value ]
JArray(items) == [ kind |-> "Array", items |-> items ]
JObject(entries) == [ kind |-> "Object", entries |-> entries ]

\* JSON text: a sequence of punctuation marks and scalars.
Punct(c) == [ tok |-> c ]
Scalar(value) == [ tok |-> "scalar", value |-> value ]

\* serde_json::to_string: the entries of an object are written in the order
\* of its Map.
RECURSIVE to_string(_)
RECURSIVE WriteItems(_)
RECURSIVE WriteEntries(_)
to_string(value) ==
    IF value.kind = "Object"
    THEN << Punct("{") >> \o WriteEntries(value.entries) \o << Punct("}") >>
    ELSE IF value.kind = "Array"
    THEN << Punct("[") >> \o WriteItems(value.items) \o << Punct("]") >>
    ELSE << Scalar(value) >>

WriteItems(items) ==
    IF items = << >>
    THEN << >>
    ELSE to_string(Head(items))
         \o (IF Tail(items) = << >> THEN << >> ELSE << Punct(",") >> \o WriteItems(Tail(items)))

WriteEntries(entries) ==
    IF entries = << >>
    THEN << >>
    ELSE << Scalar(JString(Head(entries).key)), Punct(":") >>
         \o to_string(Head(entries).value)
         \o (IF Tail(entries) = << >> THEN << >> ELSE << Punct(",") >> \o WriteEntries(Tail(entries)))

\* Map::insert. A key the map holds keeps its place and takes the new value;
\* a new key goes to the end of a Map that preserves insertion order
\* (serde_json's preserve_order feature) and to its sorted place in a Map that
\* is a BTreeMap.
MapInsertEntry(entries, key, value, preserve_order) ==
    IF \E i \in DOMAIN entries : entries[i].key = key
    THEN [ i \in DOMAIN entries |->
             IF entries[i].key = key THEN [ key |-> key, value |-> value ] ELSE entries[i] ]
    ELSE IF preserve_order
    THEN Append(entries, [ key |-> key, value |-> value ])
    ELSE LET k == Cardinality({ i \in DOMAIN entries : Rank(entries[i].key) < Rank(key) })
         IN SubSeq(entries, 1, k) \o << [ key |-> key, value |-> value ] >>
            \o SubSeq(entries, k + 1, Len(entries))

\* BTreeMap::insert
BTreeInsert(entries, key, value) == MapInsertEntry(entries, key, value, FALSE)

\* The text is no JSON value.
ParseError == [ ok |-> FALSE ]
Parsed(value, rest) == [ ok |-> TRUE, value |-> value, rest |-> rest ]

\* The parser of serde_json::from_str: the value at the head of the text and
\* the text behind it.
RECURSIVE ParseValue(_, _)
RECURSIVE ParseItems(_, _, _)
RECURSIVE ParseEntries(_, _, _)
ParseValue(text, preserve_order) ==
    IF text = << >>
    THEN ParseError
    ELSE IF Head(text).tok = "scalar"
    THEN Parsed(Head(text).value, Tail(text))
    ELSE IF Head(text).tok = "["
    THEN IF Len(text) >= 2 /\ text[2].tok = "]"
         THEN Parsed(JArray(<< >>), SubSeq(text, 3, Len(text)))
         ELSE ParseItems(Tail(text), << >>, preserve_order)
    ELSE IF Head(text).tok = "{"
    THEN IF Len(text) >= 2 /\ text[2].tok = "}"
         THEN Parsed(JObject(<< >>), SubSeq(text, 3, Len(text)))
         ELSE ParseEntries(Tail(text), << >>, preserve_order)
    ELSE ParseError

ParseItems(text, items, preserve_order) ==
    LET item == ParseValue(text, preserve_order) IN
    IF ~item.ok \/ item.rest = << >>
    THEN ParseError
    ELSE IF Head(item.rest).tok = ","
    THEN ParseItems(Tail(item.rest), Append(items, item.value), preserve_order)
    ELSE IF Head(item.rest).tok = "]"
    THEN Parsed(JArray(Append(items, item.value)), Tail(item.rest))
    ELSE ParseError

ParseEntries(text, entries, preserve_order) ==
    IF Len(text) < 3 \/ text[1].tok # "scalar" \/ text[2].tok # ":"
    THEN ParseError
    ELSE IF text[1].value.kind # "String"
    THEN ParseError
    ELSE LET member == ParseValue(SubSeq(text, 3, Len(text)), preserve_order) IN
         IF ~member.ok \/ member.rest = << >>
         THEN ParseError
         ELSE LET inserted == MapInsertEntry(entries, text[1].value.text, member.value,
                                             preserve_order) IN
              IF Head(member.rest).tok = ","
              THEN ParseEntries(Tail(member.rest), inserted, preserve_order)
              ELSE IF Head(member.rest).tok = "}"
              THEN Parsed(JObject(inserted), Tail(member.rest))
              ELSE ParseError

\* serde_json::from_str
from_str(json_str, preserve_order) ==
    LET parsed == ParseValue(json_str, preserve_order) IN
    IF parsed.ok /\ parsed.rest = << >>
    THEN [ kind |-> "Ok", value |-> parsed.value ]
    ELSE [ kind |-> "Err" ]

\* sorted.into_iter().collect(): the entries inserted into a new Map.
RECURSIVE Collect(_, _, _)
Collect(entries, map, preserve_order) ==
    IF entries = << >>
    THEN map
    ELSE Collect(Tail(entries),
                 MapInsertEntry(map, Head(entries).key, Head(entries).value, preserve_order),
                 preserve_order)

\* Mutant: the keys of the outermost object are sorted, the values cloned.
RECURSIVE ShallowInto(_, _)
ShallowInto(entries, sorted) ==
    IF entries = << >>
    THEN sorted
    ELSE ShallowInto(Tail(entries),
                     BTreeInsert(sorted, Head(entries).key, Head(entries).value))

sort_json_keys_shallow(value, preserve_order) ==
    IF value.kind = "Object"
    THEN JObject(Collect(ShallowInto(value.entries, << >>), << >>, preserve_order))
    ELSE value

\* sort_json_keys: every object rebuilt from a BTreeMap of its entries, the
\* values sorted in turn; the elements of an array sorted in place.
RECURSIVE sort_json_keys(_, _)
RECURSIVE SortInto(_, _, _)
sort_json_keys(value, preserve_order) ==
    IF value.kind = "Object"
    THEN JObject(Collect(SortInto(value.entries, << >>, preserve_order), << >>,
                         preserve_order))
    ELSE IF value.kind = "Array"
    THEN JArray([ i \in DOMAIN value.items |-> sort_json_keys(value.items[i], preserve_order) ])
    ELSE value

SortInto(entries, sorted, preserve_order) ==
    IF entries = << >>
    THEN sorted
    ELSE SortInto(Tail(entries),
                  BTreeInsert(sorted, Head(entries).key,
                              sort_json_keys(Head(entries).value, preserve_order)),
                  preserve_order)

\* normalize_json_for_hashing: the text parsed, sorted and written again.
normalize_json_for_hashing(json_str, preserve_order) ==
    LET value == from_str(json_str, preserve_order) IN
    IF value.kind = "Err"
    THEN [ kind |-> "Err" ]
    ELSE [ kind |-> "Ok", text |-> to_string(sort_json_keys(value.value, preserve_order)) ]

\* hex::encode of the SHA-256 digest of a text: texts that differ have
\* digests that differ.
Sha256Hex(text) == << "sha256", text >>

\* The hash expected for the manifest with the text app_compose_str; the
\* text as it is is hashed when it cannot be normalized.
hash_app_compose(app_compose_str, preserve_order) ==
    LET normalized == normalize_json_for_hashing(app_compose_str, preserve_order) IN
    Sha256Hex(IF normalized.kind = "Ok" THEN normalized.text ELSE app_compose_str)

\* The expected hash is computed for a manifest, in a build whose Map
\* preserves insertion order or in one whose Map is sorted.
ComposeHash(app_compose_str, preserve_order) ==
    /\ canon_call' =
         [ op |-> "compose_hash", app_compose_str |-> app_compose_str,
           preserve_order |-> preserve_order,
           normalized |-> normalize_json_for_hashing(app_compose_str, preserve_order),
           expected_compose_hash |-> hash_app_compose(app_compose_str, preserve_order) ]
    /\ UNCHANGED << dispatch_vars, envelope_vars, attest_vars, construct_vars, scheduler_vars >>

\* The objects with the keys K, in every insertion order, whose values are
\* drawn per key from V[k].
ObjectsOver(K, V) ==
    { JObject(entries) :
        entries \in { s \in [1..Cardinality(K) -> UNION { [ key : {k}, value : V[k] ] : k \in K }] :
                        \A i, j \in 1..Cardinality(K) : s[i].key = s[j].key => i = j } }

\* The manifests: a name, a nested object and an array that holds strings or
\* a nested object.
InnerObjects ==
    ObjectsOver({"name", "runner"}, [ k \in {"name", "runner"} |-> {JString("a"), JBool(TRUE)} ])
Manifests ==
    ObjectsOver({"allowed_envs", "name", "runner"},
                [ k \in {"allowed_envs", "name", "runner"} |->
                    IF k = "name" THEN {JString("a")}
                    ELSE IF k = "runner" THEN InnerObjects
                    ELSE {JArray(<< >>), JArray(<< JString("b"), JString("a") >>)}
                         \cup { JArray(<< o >>) : o \in InnerObjects } ])

\* The manifest texts handed to the computation.
ManifestTexts == { to_string(m) : m \in Manifests }

\* One computation, of the allowed_envs list or of the expected compose hash.
CanonNext ==
    \/ \E required_env \in RequiredEnvs :
          canon_call = NoCanonCall /\ AllowedEnvs(required_env)
    \/ \E app_compose_str \in ManifestTexts, preserve_order \in BOOLEAN :
          canon_call = NoCanonCall /\ ComposeHash(app_compose_str, preserve_order)

CanonSpec == Init /\ [][CanonNext]_vars

\* ------------------------------------------------------------------ claims

\* C1: for any job, however many validators report and in whatever
\* interleaving, the job's status moves into Completed at most once.
C1_AtMostOneCompletion == \A j \in Jobs : completions[j] <= 1

\* C2: first arrival wins: once a first result has been recorded for a job,
\* a later result for the same job leaves the recorded status unchanged.
C2_FirstArrivalWins ==
    [][\A p \in Procs :
         (WriteStep(p) /\ first_result[call[p].job_id] # "none")
         => /\ call[p].job_id \in DOMAIN job_cache
            /\ job_cache'[call[p].job_id].status = job_cache[call[p].job_id].status]_vars

\* C3: in a distribute call every validator of the snapshot gets its turn
\* exactly once, and a validator whose egress exists and is not full at its
\* turn gets exactly one job_execute frame of the job, no other egress being
\* touched by that turn.
C3_DispatchCoverage ==
    [][\A p \in Procs :
         /\ (call[p].pc = "insert" /\ call'[p].pc = "send")
            => /\ call'[p].idx = 1
               /\ \A i, k \in DOMAIN call'[p].active_validators :
                    call'[p].active_validators[i] = call'[p].active_validators[k] => i = k
         /\ SendStep(p)
            => /\ call'[p].idx = call[p].idx + 1
               /\ call'[p].active_validators = call[p].active_validators
               /\ EgressHealthy(Target(p))
                  => validator_connections'[Target(p)].queue =
                       Append(validator_connections[Target(p)].queue, call[p].job_id)
               /\ \A u \in DOMAIN validator_connections \ {Target(p)} :
                    validator_connections'[u] = validator_connections[u]
         /\ FinishStep(p) => call[p].idx = Len(call[p].active_validators) + 1]_vars

\* A call returned after both validators of its snapshot took the frame.
C3_Witness ==
    \E p \in Procs : /\ call[p].op = "distribute" /\ call[p].pc = "done"
                     /\ Len(call[p].assigned_validators) = 2
                     /\ \A v \in Validators : << v, call[p].job_id >> \in frames

\* C4: routing is at most once: no validator is ever sent a second
\* job_execute frame for the same job_id.
C4_AtMostOnceRouting == repeated_frames = {}

\* C5: a distribute call that finds zero Active validators answers
\* {distributed: false, validator_count: 0, assigned_validators: []} and
\* leaves a Failed entry for the job in the job cache.
C5_NoValidatorsFailedEntry ==
    \A p \in SoloProcs :
        (call[p].op = "distribute" /\ call[p].pc = "done" /\ call[p].validator_count = 0)
        => /\ ~call[p].distributed
           /\ call[p].assigned_validators = << >>
           /\ call[p].job_id \in DOMAIN job_cache
           /\ job_cache[call[p].job_id].status = "Failed"

\* C6: when a distribute call returns after a non-empty snapshot, the entry
\* it leaves is Running, anchored on the first validator that accepted, with
\* distributed = true if some send was accepted, and Failed with
\* distributed = false otherwise; it is never Distributing.
C6_FinalStatus ==
    [][\A p \in Procs :
         FinishStep(p)
         => /\ call[p].job_id \in DOMAIN job_cache'
            /\ IF call[p].accepted # << >>
               THEN /\ job_cache'[call[p].job_id].status = "Running"
                    /\ job_cache'[call[p].job_id].validator_hotkey = call[p].accepted[1]
                    /\ call'[p].distributed
               ELSE /\ job_cache'[call[p].job_id].status = "Failed"
                    /\ ~call'[p].distributed]_vars

\* A call returned with two acceptors and left the entry Running.
C6_Witness ==
    \E p \in Procs : /\ call[p].op = "distribute" /\ call[p].pc = "done"
                     /\ call[p].distributed
                     /\ Len(call[p].assigned_validators) = 2
                     /\ call[p].job_id \in DOMAIN job_cache
                     /\ job_cache[call[p].job_id].status = "Running"
                     /\ job_cache[call[p].job_id].validator_hotkey = "v2"

\* C7: assigned_validators, in the response and in the cache entry, lists
\* exactly the validators whose send was accepted; a refused send drops the
\* message, assigns nobody and the loop goes on to the next validator.
C7_AssignedAreAccepted ==
    [][\A p \in Procs :
         /\ SendStep(p)
            => /\ call'[p].idx = call[p].idx + 1
               /\ IF EgressHealthy(Target(p))
                  THEN /\ validator_connections' # validator_connections
                       /\ call'[p].assigned_validators =
                            Append(call[p].assigned_validators, Target(p))
                  ELSE /\ validator_connections' = validator_connections
                       /\ call'[p].assigned_validators = call[p].assigned_validators
         /\ FinishStep(p)
            => /\ call[p].idx = Len(call[p].active_validators) + 1
               /\ call'[p].assigned_validators = call[p].accepted
               /\ job_cache'[call[p].job_id].assigned_validators = call[p].accepted]_vars

\* A call with two Active validators returned with one of them assigned: the
\* send to the other was refused and the loop went on.
C7_Witness ==
    \E p \in Procs : /\ call[p].op = "distribute" /\ call[p].pc = "done"
                     /\ call[p].validator_count = 2
                     /\ Len(call[p].assigned_validators) = 1
                     /\ job_cache[call[p].job_id].assigned_validators =
                          call[p].assigned_validators
                     /\ job_cache[call[p].job_id].status = "Running"

\* C8: forward_job_result for a job without cache entry returns the
\* not-found error and leaves the job cache as it was.
C8_UnknownJob ==
    [][\A p \in Procs :
         (ForwardStart(p) /\ call'[p].job_id \notin DOMAIN job_cache)
         => /\ call'[p].pc = "done"
            /\ call'[p].result = "Err"
            /\ job_cache' = job_cache]_vars

\* A result for an unknown job was refused while another job is cached.
C8_Witness ==
    \E p \in Procs : /\ call[p].op = "forward" /\ call[p].pc = "done"
                     /\ call[p].result = "Err"
                     /\ call[p].job_id \notin DOMAIN job_cache
                     /\ job_cache # EmptyMap

C10_NonceRedeemedOnce ==
    \A i, k \in DOMAIN accepted_log :
        ( /\ i < k
          /\ accepted_log[i].hotkey = accepted_log[k].hotkey
          /\ accepted_log[i].nonce = accepted_log[k].nonce )
        => accepted_log[k].at - accepted_log[i].at > FreshnessWindow

\* A second message with a redeemed pair was refused as a replay in the last
\* second of the window, after the same nonce was accepted from another hotkey.
C10_Witness ==
    /\ verdict = "Replay"
    /\ Len(accepted_log) = 2
    /\ accepted_log[1].hotkey # accepted_log[2].hotkey
    /\ accepted_log[1].nonce = accepted_log[2].nonce
    /\ now - accepted_log[1].at = FreshnessWindow

\* The checks of the envelope of the last call, each on its own.
FreshnessPasses == saturating_sub(checked.now, checked.msg.timestamp) <= FreshnessWindow
IdentityPasses == checked.msg.public_key = checked.expected_hotkey
KeyParses == checked.msg.public_key # NotSs58
SignatureDecodes == checked.msg.signature \notin {"not-hex", "short"}
SignatureVerifies == checked.msg.signature = "signed"

\* C11: verify_secure_message checks freshness, identity bind, SS58 key
\* parse, signature hex decode with 64-byte length and signature verify in
\* that order: it returns the failure of the first check that fails, and Ok
\* only when all five pass.
C11_CheckOrder ==
    checked # NoCheck =>
      /\ (checked.result = "Message timestamp too old") <=> ~FreshnessPasses
      /\ (checked.result = "Public key mismatch")
            <=> (FreshnessPasses /\ ~IdentityPasses)
      /\ (checked.result = "Invalid public key")
            <=> (FreshnessPasses /\ IdentityPasses /\ ~KeyParses)
      /\ (checked.result \in {"Invalid signature hex", "Invalid signature length"})
            <=> (FreshnessPasses /\ IdentityPasses /\ KeyParses /\ ~SignatureDecodes)
      /\ (checked.result = "Signature verification failed")
            <=> (FreshnessPasses /\ IdentityPasses /\ KeyParses /\ SignatureDecodes
                 /\ ~SignatureVerifies)
      /\ (checked.result = "Ok")
            <=> (FreshnessPasses /\ IdentityPasses /\ KeyParses /\ SignatureDecodes
                 /\ SignatureVerifies)

\* A stale envelope that also names another hotkey and carries a forged
\* signature was refused as stale.
C11_Witness ==
    /\ checked # NoCheck
    /\ checked.result = "Message timestamp too old"
    /\ checked.msg.public_key # checked.expected_hotkey
    /\ checked.msg.signature = "forged"

\* C12: the freshness check refuses every envelope more than 30 seconds
\* older than now, accepts one exactly 30 seconds old and refuses every
\* future-dated envelope (timestamp > now).
C12_FreshnessWindow ==
    checked # NoCheck =>
      /\ checked.now - checked.msg.timestamp > FreshnessWindow
           => checked.result = "Message timestamp too old"
      /\ checked.now - checked.msg.timestamp = FreshnessWindow
           => checked.result # "Message timestamp too old"
      /\ checked.msg.timestamp > checked.now
           => checked.result = "Message timestamp too old"

\* The last attestation call returned Ok / ran on the full path.
Attested == attest_call # NoAttestCall /\ attest_call.result = "Ok"
FullPath == config.dstack_verifier

\* C13: on either path, an event log that reports a compose hash other than
\* the expected one makes the attestation fail: no session is created and
\* no token is issued.
C13_ComposeHashMismatch ==
    ( /\ attest_call # NoAttestCall
      /\ attest_call.msg.event_log.kind = "compose-hash"
      /\ attest_call.msg.event_log.compose_hash # HashExpected )
    => /\ attest_call.result # "Ok"
       /\ sessions = attest_call.sessions_before
       /\ attest_call.token = NoToken

\* C14: on either path, an attestation whose event log is absent or holds
\* no compose-hash record is never answered Ok.
C14_EventLogRequired ==
    ( /\ attest_call # NoAttestCall
      /\ attest_call.msg.event_log.kind \in {"None", "no-compose-hash"} )
    => attest_call.result # "Ok"

\* C15: on the full path an attestation is accepted only if is_valid,
\* quote_verified, event_log_verified and os_image_hash_verified of the
\* oracle's response are all true.
C15_AllFourChecks ==
    (Attested /\ FullPath)
    => /\ attest_call.env.oracle.kind = "Ok"
       /\ attest_call.env.oracle.is_valid
       /\ attest_call.env.oracle.quote_verified
       /\ attest_call.env.oracle.event_log_verified
       /\ attest_call.env.oracle.os_image_hash_verified

\* C16: on the full path a vm_config that is absent, empty or not parseable
\* is fatal, and the oracle is never called with a default configuration.
C16_VmConfigRequired ==
    ( /\ attest_call # NoAttestCall
      /\ FullPath
      /\ attest_call.msg.vm_config # "vm-config" )
    => /\ attest_call.result # "Ok"
       /\ ~attest_call.verifier_called

\* C17: with challenge bytes supplied, the full path accepts only a quote of
\* at least 632 bytes whose report_data starts with SHA-256(challenge).
C17_ChallengeBinding ==
    (Attested /\ FullPath /\ attest_call.challenge # None)
    => /\ attest_call.msg.quote.len >= ReportDataEnd
       /\ attest_call.msg.quote.report_data = Sha256(attest_call.challenge)

\* C18: every successful attestation, on either path, stores exactly one
\* new session, Verified, under the hotkey derived from the identity and
\* expiring at now + session_timeout, and issues a token for it.
C18_SessionStored ==
    Attested
    => \E id \in DOMAIN sessions :
         /\ id \notin DOMAIN attest_call.sessions_before
         /\ DOMAIN sessions = DOMAIN attest_call.sessions_before \cup {id}
         /\ \A other \in DOMAIN attest_call.sessions_before :
              sessions[other] = attest_call.sessions_before[other]
         /\ sessions[id].status = "Verified"
         /\ sessions[id].expires_at = now + config.session_timeout
         /\ (attest_call.env.static.kind = "Ok" /\ attest_call.env.static.app_id # None)
              => sessions[id].validator_hotkey =
                   << "validator", hex_encode(attest_call.env.static.app_id),
                      hex_encode(attest_call.env.static.instance_id) >>
         /\ attest_call.token # NoToken
         /\ attest_call.token = sessions[id].session_token

\* C19: for every issued token verify_token succeeds if and only if
\* now < exp.
C19_TokenFreshness ==
    (token_check # NoTokenCheck /\ token_check.token \in issued)
    => ((token_check.result = "Ok") <=> (token_check.now < token_check.token.exp))

\* C20: for every issued token and every configured session_timeout,
\* exp > iat and exp - iat <= session_timeout.
C20_TokenWithinSession ==
    \A token \in issued :
        /\ token.exp > token.iat
        /\ token.exp - token.iat <= config.session_timeout

\* C21: AttestationService::new returns an error and constructs no service
\* exactly when the configured jwt_secret is the sentinel default secret, the
\* secret of AttestationConfig::default(); every other secret yields a
\* service, and no key that signs or verifies a token is the sentinel.
C21_SentinelSecretRejected ==
    /\ new_call # NoNewCall =>
         /\ new_call.result = "Err"
              <=> new_call.config.jwt_secret = AttestationConfigDefault.jwt_secret
         /\ new_call.result = "Err" => services = new_call.services_before
         /\ new_call.result = "Ok" =>
              \E service \in services : service.config = new_call.config
    /\ \A service \in services :
         /\ service.signing_key # AttestationConfigDefault.jwt_secret
         /\ service.decoding_key # AttestationConfigDefault.jwt_secret
    /\ \A used \in keys_used : used.key # AttestationConfigDefault.jwt_secret
C21_Witness ==
    /\ new_call # NoNewCall
    /\ new_call.config = AttestationConfigDefault
    /\ new_call.result = "Err"
    /\ \E used \in keys_used : used.op = "sign"
    /\ \E used \in keys_used : used.op = "verify"

\* The number of fail calls in a job's log, and a log of fail calls only.
FailCount(log) == Cardinality({ i \in 1..Len(log) : log[i] = "fail" })
OnlyFails(log) == \A i \in 1..Len(log) : log[i] = "fail"
\* The last call was op on a job the scheduler held.
LastCallOn(op, job_id) ==
    /\ sched_call.op = op
    /\ sched_call.job_id = job_id
    /\ job_id \in DOMAIN sched_call.jobs_before

\* C22: for a job with max_retries = m, each of the first m fail calls
\* increments retry_count by one, returns the job to Pending and resets its
\* claim state; with m = 2, two fails followed by a complete leave the job
\* Completed with retry_count = 2.
C22_RetryThenSuccess ==
    \A job_id \in DOMAIN jobs :
        /\ ( /\ LastCallOn("fail_job", job_id)
             /\ OnlyFails(job_log[job_id])
             /\ FailCount(job_log[job_id]) <= jobs[job_id].max_retries )
           => /\ jobs[job_id].retry_count
                   = sched_call.jobs_before[job_id].retry_count + 1
              /\ jobs[job_id].status = "Pending"
              /\ jobs[job_id].validator_hotkey = NoValue
        /\ ( /\ jobs[job_id].max_retries = 2
             /\ job_log[job_id] = << "fail", "fail", "complete" >> )
           => /\ jobs[job_id].status = "Completed"
              /\ jobs[job_id].retry_count = 2

\* C23: in every reachable state every job has retry_count <= max_retries.
C23_RetryCountBounded ==
    \A job_id \in DOMAIN jobs : jobs[job_id].retry_count <= jobs[job_id].max_retries
C23_Witness ==
    \E job_id \in DOMAIN jobs :
        /\ jobs[job_id].max_retries = 0
        /\ FailCount(job_log[job_id]) >= 2
        /\ sched_call.op = "timeout_sweep"
        /\ job_id \in sched_call.swept

\* C24: max_retries + 1 fail calls on a job that starts in Pending leave it
\* Failed, no later operation moves a job out of Failed, and the
\* (max_retries + 2)-th fail call changes neither status nor retry_count.
C24_RetryBound ==
    /\ \A job_id \in DOMAIN jobs :
         /\ ( /\ OnlyFails(job_log[job_id])
              /\ FailCount(job_log[job_id]) >= jobs[job_id].max_retries + 1 )
            => jobs[job_id].status = "Failed"
         /\ ( /\ LastCallOn("fail_job", job_id)
              /\ OnlyFails(job_log[job_id])
              /\ FailCount(job_log[job_id]) >= jobs[job_id].max_retries + 2 )
            => /\ jobs[job_id].status = sched_call.jobs_before[job_id].status
               /\ jobs[job_id].retry_count = sched_call.jobs_before[job_id].retry_count
    /\ sched_call.op # "none" =>
         \A job_id \in DOMAIN sched_call.jobs_before :
            sched_call.jobs_before[job_id].status = "Failed"
                => jobs[job_id].status = "Failed"

\* C25: the first fail_job on a newly created job with max_retries > 0
\* succeeds, and get_job then reports status Failed and retry_count 0.
C25_FirstFailure ==
    \A job_id \in DOMAIN jobs :
        ( /\ LastCallOn("fail_job", job_id)
          /\ job_log[job_id] = << "fail" >>
          /\ jobs[job_id].max_retries > 0 )
        => /\ sched_call.result = "Ok"
           /\ get_job(jobs, job_id).kind = "Ok"
           /\ get_job(jobs, job_id).job.status = "Failed"
           /\ get_job(jobs, job_id).job.retry_count = 0

\* C26: create_job stores and returns a job in Pending with retry_count 0,
\* the requested priority and runtime, max_retries as requested or 3 when
\* none is given and timeout_at = now + timeout; get_job then returns it.
C26_CreateJob ==
    sched_call.op = "create_job" =>
        /\ sched_call.result = "Ok"
        /\ sched_call.job.status = "Pending"
        /\ sched_call.job.retry_count = 0
        /\ sched_call.job.priority = sched_call.request.priority.value
        /\ sched_call.job.runtime = sched_call.request.runtime
        /\ sched_call.job.max_retries =
             IF sched_call.request.max_retries.kind = "Some"
             THEN sched_call.request.max_retries.value ELSE 3
        /\ sched_call.job.timeout_at.kind = "Some"
        /\ sched_call.request.timeout.kind = "Some" =>
             sched_call.job.timeout_at.value
                 = sched_call.at + sched_call.request.timeout.value
        /\ sched_call.job.id \notin DOMAIN sched_call.jobs_before
        /\ get_job(jobs, sched_call.job.id) = [ kind |-> "Ok", job |-> sched_call.job ]
C26_Witness ==
    /\ sched_call.op = "create_job"
    /\ sched_call.request.max_retries = NoValue
    /\ sched_call.request.timeout = Some(1)
    /\ sched_call.request.priority = Some("High")
    /\ sched_call.at > 0

\* C27: claim_job succeeds only for a Pending job: when one exists, the call
\* returns it Claimed with the validator as first assignee; a job that is not
\* Pending is never handed out by claim_job or claim_specific_job.
C27_ClaimOnlyPending ==
    /\ ( /\ sched_call.op = "claim_job"
         /\ \E job_id \in DOMAIN sched_call.jobs_before :
               sched_call.jobs_before[job_id].status = "Pending" )
       => /\ sched_call.result = "Ok"
          /\ \E job_id \in DOMAIN jobs :
               /\ sched_call.jobs_before[job_id].status = "Pending"
               /\ jobs[job_id].status = "Claimed"
               /\ jobs[job_id].validator_hotkey = Some(sched_call.validator_hotkey)
    /\ sched_call.op \in {"claim_job", "claim_specific_job"} =>
         \A job_id \in DOMAIN sched_call.jobs_before :
            jobs[job_id] # sched_call.jobs_before[job_id]
                => sched_call.jobs_before[job_id].status = "Pending"

\* C28: after complete_job succeeds on a job in a non-terminal state,
\* get_job reports it Completed with completed_at set.
C28_CompleteJob ==
    \A job_id \in DOMAIN jobs :
        ( /\ LastCallOn("complete_job", job_id)
          /\ sched_call.result = "Ok"
          /\ sched_call.jobs_before[job_id].status \in NonTerminal )
        => /\ get_job(jobs, job_id).kind = "Ok"
           /\ get_job(jobs, job_id).job.status = "Completed"
           /\ get_job(jobs, job_id).job.completed_at.kind = "Some"

\* C29: every job past its timeout_at in a non-terminal state is eventually
\* processed by the timeout sweep, which applies fail("timeout") to it: its
\* retry_count grows or it leaves the non-terminal states; no overdue job
\* stays as it is forever.
C29_SweepProcessesOverdue ==
    \A job_id \in JobIds, n \in 0..DefaultRetryAttempts :
        ( /\ job_id \in Overdue(jobs, now)
          /\ jobs[job_id].retry_count = n )
        ~> ( /\ job_id \in DOMAIN jobs
             /\ \/ jobs[job_id].status \notin NonTerminal
                \/ jobs[job_id].retry_count > n )

\* The jobs a list_jobs call with the given filters asks for.
Matching(js, status, challenge_id) ==
    { id \in DOMAIN js :
        /\ status.kind = "Some" =>
             \/ status.value = "pending" /\ js[id].status = "Pending"
             \/ status.value = "completed" /\ js[id].status = "Completed"
        /\ challenge_id.kind = "Some" => js[id].challenge_id = challenge_id.value }

\* C30: list_jobs(page, per_page, status, challenge_id) returns at most
\* per_page jobs, reports as total the number of all matching jobs and echoes
\* the requested page and per_page.
C30_ListJobs ==
    sched_call.op = "list_jobs" =>
        /\ Cardinality(sched_call.response.jobs) <= sched_call.per_page
        /\ sched_call.response.total =
             Cardinality(Matching(sched_call.jobs_before, sched_call.status,
                                  sched_call.challenge_id))
        /\ sched_call.response.page = sched_call.page
        /\ sched_call.response.per_page = sched_call.per_page

\* ---------------------------------------------- claims on the dispatch races
\* A distribute call of p has returned with its response.
Responded(p) == call[p].op = "distribute" /\ call[p].pc = "done" /\ call[p].result = "Ok"

\* C39: in every response of distribute, validator_count is at least the
\* number of entries of assigned_validators, whatever happens between the
\* read of the count and the read of the eligibility snapshot.
C39_CountCoversAssigned ==
    \A p \in Procs :
        Responded(p) => call[p].validator_count >= Len(call[p].assigned_validators)

\* C38: once forward_job_result has stored a terminal status for a job, the
\* final cache write of a distribute call for the same job that is still in
\* progress does not replace it with a status that is not terminal.
C38_TerminalStatusKept ==
    [][\A p \in Procs :
         ( /\ FinishStep(p)
           /\ first_result[call[p].job_id] # "none"
           /\ job_cache[call[p].job_id].status \in {"Completed", "Failed"} )
         => job_cache'[call[p].job_id].status \in {"Completed", "Failed"}]_vars

\* C37: a job_execute frame is accepted only for a job whose cache entry is
\* already inserted, no step removes a cache entry, and so, before and after
\* every step of any interleaving with distribute, the lookup of a
\* forward_job_result call for a job with an accepted frame finds the entry
\* and does not return the not-found error.
C37_DispatchedJobIsCached ==
    [][/\ \A p \in Procs :
            (SendStep(p) /\ validator_connections' # validator_connections)
            => call[p].job_id \in DOMAIN job_cache
       /\ \A j \in DOMAIN job_cache : j \in DOMAIN job_cache'
       /\ \A job_id \in Jobs, error \in BOOLEAN :
            /\ (\E v \in Validators : << v, job_id >> \in frames)
               => /\ ForwardLookup(job_id, error).pc = "write"
                  /\ ForwardLookup(job_id, error).result # "Err"
            /\ (\E v \in Validators : << v, job_id >> \in frames')
               => /\ ForwardLookup(job_id, error)'.pc = "write"
                  /\ ForwardLookup(job_id, error)'.result # "Err"]_vars

\* A result of a dispatched job was accepted while the distribute call that
\* sent the job's frame had not yet made its final write.
C37_Witness ==
    \E p, q \in Procs :
        /\ call[p].op = "distribute" /\ call[p].pc = "send"
        /\ call[p].accepted # << >>
        /\ call[q].op = "forward" /\ call[q].pc = "done" /\ call[q].result = "Ok"
        /\ call[q].job_id = call[p].job_id

\* C36: the eligibility snapshot for a compose_hash holds exactly the hotkeys
\* whose status entry for that compose_hash is Active when the snapshot is
\* taken, each once; a validator whose entry is then Disabled or Paused, or
\* who then has no entry for the compose hash, is not in it, and the call
\* sends frames to members of its snapshot only.
C36_SnapshotIsActiveSet ==
    [][\A p \in Procs :
         /\ (call[p].op = "distribute" /\ call[p].pc = "snapshot" /\ call'[p].pc = "insert")
            => LET snapshot == call'[p].active_validators
               IN /\ \A v \in Validators :
                       (\E i \in DOMAIN snapshot : snapshot[i] = v)
                       <=> /\ v \in DOMAIN validator_challenge_status
                           /\ call[p].compose_hash \in DOMAIN validator_challenge_status[v]
                           /\ validator_challenge_status[v][call[p].compose_hash] = "Active"
                  /\ \A i, k \in DOMAIN snapshot : snapshot[i] = snapshot[k] => i = k
         /\ (SendStep(p) /\ validator_connections' # validator_connections)
            => /\ \E i \in DOMAIN call[p].active_validators :
                    /\ call[p].active_validators[i] = Target(p)
                    /\ validator_connections'[Target(p)].queue # validator_connections[Target(p)].queue
               /\ \A u \in DOMAIN validator_connections \ {Target(p)} :
                    validator_connections'[u] = validator_connections[u]]_vars

\* A snapshot for h1 holds v2 alone while v1 has an entry for h1 that is not
\* Active and both validators are connected.
C36_Witness ==
    \E p \in Procs :
        /\ call[p].op = "distribute" /\ call[p].pc = "insert"
        /\ call[p].compose_hash = "h1"
        /\ call[p].active_validators = << "v2" >>
        /\ "v1" \in DOMAIN validator_challenge_status
        /\ "h1" \in DOMAIN validator_challenge_status["v1"]
        /\ validator_challenge_status["v1"]["h1"] = "Paused"
        /\ {"v1", "v2"} \subseteq DOMAIN validator_connections

\* The validator's connection was removed or the receiving half of its egress
\* was dropped.
Gone(v) == v \notin DOMAIN validator_connections \/ validator_connections[v].closed

\* C34: a validator of the snapshot that is deregistered (connection removed
\* or egress closed) before its turn in the send loop counts as a failed
\* send: it is not pushed to assigned_validators and no egress changes; the
\* loop goes on, a later validator with a healthy egress is still assigned,
\* and the call returns its response.
C34_DeregisteredIsFailedSend ==
    [][\A p \in Procs :
         /\ (SendStep(p) /\ Gone(Target(p)))
            => /\ call'[p].assigned_validators = call[p].assigned_validators
               /\ call'[p].job_cache.assigned_validators = call[p].job_cache.assigned_validators
               /\ call'[p].idx = call[p].idx + 1
               /\ validator_connections' = validator_connections
         /\ ( /\ SendStep(p) /\ EgressHealthy(Target(p))
              /\ \E i \in 1..(call[p].idx - 1) : Gone(call[p].active_validators[i]) )
            => call'[p].assigned_validators = Append(call[p].assigned_validators, Target(p))
         /\ FinishStep(p)
            => /\ call[p].idx = Len(call[p].active_validators) + 1
               /\ call'[p].result = "Ok"
               /\ call'[p].assigned_validators = call[p].assigned_validators]_vars

\* The send loop of the first call, whose snapshot held both validators, is
\* over: the validator whose connection was removed after the snapshot is
\* not assigned, the other one, whose turn came later, is.
C34_Witness ==
    \E p \in Procs :
        /\ calls_started = 1
        /\ call[p].op = "distribute" /\ call[p].pc = "send"
        /\ Len(call[p].active_validators) = 2
        /\ call[p].idx = 3
        /\ call[p].active_validators[1] \notin DOMAIN validator_connections
        /\ call[p].assigned_validators = << call[p].active_validators[2] >>

\* -------------------------------------------- claims on the session table
\* C40: after any sequence of attestation calls every entry of the session
\* table is Verified and carries a token; a call whose verification result is
\* invalid is answered with status Failed and no token, and leaves the
\* session table as it was.
C40_SessionTableVerified ==
    /\ \A id \in DOMAIN sessions :
         /\ sessions[id].status = "Verified"
         /\ sessions[id].session_token # NoToken
    /\ ( /\ attest_call # NoAttestCall
         /\ ~FullPath
         /\ attest_call.msg.quote.kind = "bytes"
         /\ attest_call.env.static.kind = "Ok"
         /\ ~attest_call.env.static.is_valid )
       => /\ attest_call.status = "Failed"
          /\ attest_call.token = NoToken
          /\ sessions = attest_call.sessions_before

\* A call with an invalid result was answered Failed while the table holds
\* the session of an earlier call.
C40_Witness ==
    /\ attest_call # NoAttestCall
    /\ attest_call.env.static.kind = "Ok"
    /\ ~attest_call.env.static.is_valid
    /\ attest_call.status = "Failed"
    /\ sessions # EmptyMap
    /\ sessions = attest_call.sessions_before

\* Session ids get_session is asked for: the stored ones and one more.
SessionIds == 1..(MaxAttestations + 1)

\* C33: once now is past a session's expires_at, get_session does not return
\* it as a Verified session: it is marked Expired or it is gone.
C33_SessionExpires ==
    \A id \in SessionIds :
        ( /\ id \in DOMAIN sessions
          /\ now > sessions[id].expires_at )
        => \/ get_session(id).kind = "Err"
           \/ get_session(id).session.status # "Verified"

\* ------------------------------------------------- claims on the egress
\* C31: a validator's egress is FIFO: a frame whose send is accepted goes
\* behind the frames already waiting, whichever of the concurrent distribute
\* calls sent it, and the validator takes the frame at the head, the order of
\* the others kept; frames leave otherwise only when the receiver is dropped
\* or the connection replaced.
C31_EgressFifo ==
    [][\A v \in Validators :
         (v \in DOMAIN validator_connections /\ v \in DOMAIN validator_connections')
         => LET before == validator_connections[v].queue
                after == validator_connections'[v].queue
            IN after # before
               => \/ \E p \in Procs : /\ SendStep(p) /\ Target(p) = v
                                      /\ after = Append(before, call[p].job_id)
                  \/ /\ before # << >>
                     /\ after = Tail(before)
                     /\ call' = call
                  \/ /\ after = << >>
                     /\ call' = call
                     /\ \/ validator_connections'[v].closed
                        \/ validator_connections'[v] = BufferedConnection]_vars

\* The frames of two distribute calls that are both in their send loops wait
\* on v1's egress.
C31_Witness ==
    /\ "v1" \in DOMAIN validator_connections
    /\ Len(validator_connections["v1"].queue) = 2
    /\ validator_connections["v1"].queue[1] # validator_connections["v1"].queue[2]
    /\ \A p \in Procs : call[p].op = "distribute" /\ call[p].pc = "send"

\* ------------------------------------- claims on the expected manifest
\* The elements of a sequence.
Range(seq) == { seq[i] : i \in DOMAIN seq }

\* C35: allowed_envs is the union of the three fixed keys and the VM's
\* required_env, ascending and without duplicates, and it is the same list
\* for every ordering and repetition of the same required keys.
C35_AllowedEnvs ==
    canon_call.op = "allowed_envs"
    => /\ Range(canon_call.env_keys) =
            {"DSTACK_VMM_URL", "HOTKEY_PASSPHRASE", "VALIDATOR_BASE_URL"}
            \cup Range(canon_call.required_env)
       /\ \A i \in 1..(Len(canon_call.env_keys) - 1) :
            Rank(canon_call.env_keys[i]) < Rank(canon_call.env_keys[i + 1])
       /\ \A other \in RequiredEnvs :
            Range(other) = Range(canon_call.required_env)
            => allowed_envs(other) = canon_call.env_keys

\* The list for a required_env that is out of order, repeats a key and names
\* a fixed one.
C35_Witness ==
    /\ canon_call.op = "allowed_envs"
    /\ canon_call.required_env = << "ZONE", "HOTKEY_PASSPHRASE", "ZONE" >>
    /\ canon_call.env_keys =
         << "DSTACK_VMM_URL", "HOTKEY_PASSPHRASE", "VALIDATOR_BASE_URL", "ZONE" >>

\* What a JSON value says, whatever the order of the entries of its objects.
RECURSIVE Content(_)
Content(value) ==
    IF value.kind = "Object"
    THEN [ kind |-> "Object",
           members |-> [ k \in { value.entries[i].key : i \in DOMAIN value.entries } |->
                           Content((CHOOSE e \in Range(value.entries) : e.key = k).value) ] ]
    ELSE IF value.kind = "Array"
    THEN [ kind |-> "Array", items |-> [ i \in DOMAIN value.items |-> Content(value.items[i]) ] ]
    ELSE value

\* C32: the manifests that differ only in the order of the keys of their
\* objects, at any depth, have the same normalized text and so the same
\* expected compose hash, and normalizing a normalized text gives it back.
C32_KeyOrderInsensitive ==
    canon_call.op = "compose_hash"
    => /\ canon_call.normalized.kind = "Ok"
       /\ \A other \in Manifests :
            Content(other) = Content(from_str(canon_call.app_compose_str, TRUE).value)
            => /\ normalize_json_for_hashing(to_string(other), canon_call.preserve_order) =
                    canon_call.normalized
               /\ hash_app_compose(to_string(other), canon_call.preserve_order) =
                    canon_call.expected_compose_hash
       /\ normalize_json_for_hashing(canon_call.normalized.text, canon_call.preserve_order) =
            canon_call.normalized

\* The hash of a manifest whose keys were inserted out of order at both
\* levels, the nested object inside the array included.
C32_Witness ==
    /\ canon_call.op = "compose_hash"
    /\ canon_call.preserve_order
    /\ canon_call.app_compose_str =
         to_string(JObject(<<
            [ key |-> "runner",
              value |-> JObject(<< [ key |-> "runner", value |-> JBool(TRUE) ],
                                   [ key |-> "name", value |-> JString("a") ] >>) ],
            [ key |-> "name", value |-> JString("a") ],
            [ key |-> "allowed_envs",
              value |-> JArray(<< JObject(<< [ key |-> "runner", value |-> JString("a") ],
                                             [ key |-> "name", value |-> JBool(TRUE) ] >>) >>) ] >>))
    /\ canon_call.normalized.kind = "Ok"
    /\ canon_call.normalized.text # canon_call.app_compose_str

====
